---- MODULE Spec2Model ----
(***************************************************************************)
(* Model of the insightmate data-understanding pipeline:                   *)
(*   backend/agents/data_cleaning_agent.py   (DataCleaningAgent)           *)
(*   backend/services/analysis_service.py    (AnalysisService)             *)
(*   backend/agents/conversational_agent.py  (ConversationalAgent)         *)
(*                                                                         *)
(* Numbers are fixed-point: a numeric value x is stored as x * SCALE, so   *)
(* that medians, linearly interpolated quartiles and the 1.5*IQR bounds of *)
(* the modelled inputs are exact integers.  Text values are strings of a   *)
(* finite vocabulary; str.lower / str.strip / regex replacement /          *)
(* pd.to_numeric are the tables of what they do on that vocabulary.        *)
(* pandas semantics assumed: 1.x / 2.x without copy-on-write, i.e.         *)
(* df[column].fillna(..., inplace=True) writes through to df.              *)
(***************************************************************************)
EXTENDS Integers, Sequences, FiniteSets, TLC

VARIABLES
    pc,               \* position of the running entry point
    df,               \* the caller's table (argument of clean_data / analyze_data)
    cleaned_df,       \* clean_data: the working copy the rules mutate
    cleaning_report,  \* clean_data: the report under construction
    rule_input,       \* table the most recently applied rule received
    alias,            \* clean_data: cleaned_df is the caller's object, not a copy
    second_report,    \* report of a repeated _handle_outliers call
    analysis_results, \* analyze_data: facet key -> value
    facet_raised,     \* analyze_data: facets whose computation raised
    http_results,     \* routes/data.py: analysis_results after replace_nan_recursive
    message,          \* parse_query: the input text (sequence of words)
    query_info,       \* parse_query: the parsed query
    context,          \* process_message: the caller's context argument
    response,         \* _generate_response: the text returned
    sessions,         \* ConversationalAgent.sessions: id -> session
    session_id,       \* id the most recent session operation worked on
    history,          \* value returned by the most recent get_session_history
    processed,        \* id -> messages handed to process_message since the last clear
    route,            \* routes/data.py: the running endpoint
    calls,            \* routes/data.py: the stage calls made so far, with arguments
    insights,         \* routes/data.py: what the insight stage returned
    charts_data,      \* create_charts_data: chart key -> payload
    chart_raised      \* create_charts_data: entries whose derivation raised

chat_vars == <<context, response, sessions, session_id, history, processed>>
pipeline_vars == <<route, calls, insights, charts_data, chart_raised>>
data_vars == <<df, cleaned_df, cleaning_report, rule_input, alias, second_report,
               analysis_results, facet_raised, http_results>>

vars == <<pc, df, cleaned_df, cleaning_report, rule_input, alias, second_report,
          analysis_results, facet_raised, http_results, message, query_info,
          chat_vars, pipeline_vars>>

-----------------------------------------------------------------------------
(* Bounds *)

MaxRows == 3          \* rows of a table handed to clean_data
MaxCodeRows == 5      \* rows of a table with a text column of numbers
MaxOutlierRows == 4   \* rows of the numeric column handed to _handle_outliers
MaxAnalyzeRows == 2   \* rows of a table handed to analyze_data
MaxWords == 3         \* words of a message handed to parse_query
MaxFacetFaults == 2   \* facets of one analyze_data call that raise

SCALE == 128          \* fixed-point denominator of numeric cells

-----------------------------------------------------------------------------
(* Cells and tables (pandas DataFrame) *)

Null == [k |-> "null", n |-> 0, s |-> ""]
Num(x) == [k |-> "num", n |-> x * SCALE, s |-> ""]
Raw(x) == [k |-> "num", n |-> x, s |-> ""]
Str(t) == [k |-> "str", n |-> 0, s |-> t]
Bool(b) == [k |-> "bool", n |-> IF b THEN 1 ELSE 0, s |-> ""]
\* an unhashable Python object (a list read from JSON); s is its str()
ListCell(t) == [k |-> "list", n |-> 0, s |-> t]
\* a pandas Timestamp; n is its ordinal
Ts(d) == [k |-> "ts", n |-> d, s |-> ""]

IsNull(c) == c.k = "null"

NRows(t) == Len(t.rows)
NCols(t) == Len(t.labels)
Shape(t) == <<NRows(t), NCols(t)>>
ColIdx(t) == 1..NCols(t)
Column(t, j) == [i \in 1..NRows(t) |-> t.rows[i][j]]
SetColumn(t, j, col) ==
    [t EXCEPT !.rows = [i \in 1..NRows(t) |-> [t.rows[i] EXCEPT ![j] = col[i]]]]
SetDtype(t, j, d) == [t EXCEPT !.dtypes[j] = d]

EmptyMap == [x \in {} |-> 0]
MapPut(m, key, v) == [x \in (DOMAIN m) \cup {key} |-> IF x = key THEN v ELSE m[x]]

RECURSIVE SeqSum(_)
SeqSum(s) == IF s = <<>> THEN 0 ELSE Head(s) + SeqSum(Tail(s))

\* the non-null cells of a column, in row order (Series.dropna())
DropNa(col) == SelectSeq(col, LAMBDA c : ~IsNull(c))
CountNull(col) == Len(col) - Len(DropNa(col))

\* ascending sort of a sequence of integers
RECURSIVE SortInts(_)
SortInts(s) ==
    IF s = <<>> THEN <<>>
    ELSE LET m == CHOOSE i \in 1..Len(s) : \A j \in 1..Len(s) : s[i] <= s[j]
             rest == [j \in 1..(Len(s) - 1) |-> IF j < m THEN s[j] ELSE s[j + 1]]
         IN  <<s[m]>> \o SortInts(rest)

NumsOf(col) == LET d == DropNa(col) IN [i \in 1..Len(d) |-> d[i].n]

-----------------------------------------------------------------------------
(* Text operations, as tables over the text vocabulary *)

\* str.strip()
Strip(s) ==
    CASE s = "$5 " -> "$5"
      [] s = " Yes" -> "Yes"
      [] OTHER -> s

\* str.lower()
Lower(s) ==
    CASE s = "Yes" -> "yes"
      [] s = "NO" -> "no"
      [] s = "A  b" -> "a  b"
      [] s = "Unknown" -> "unknown"
      [] s = "Trend" -> "trend"
      [] s = "TOP" -> "top"
      [] OTHER -> s

\* str.replace(r'\s+', ' ', regex=True)
CollapseWs(s) ==
    CASE s = "a  b" -> "a b"
      [] s = "A  b" -> "A b"
      [] OTHER -> s

\* str.replace(r'[^\d.-]', '', regex=True)
CurrencyClean(s) ==
    CASE s \in {"$5", "$5 ", "5"} -> "5"
      [] s \in {"7", "1", "0", "2021-01-05", "2021-02-05"} -> s
      [] OTHER -> ""

\* position of a string in Python's str ordering (sorted())
StrRank(s) ==
    CASE s = " Yes" -> 1
      [] s = "$5" -> 2
      [] s = "$5 " -> 3
      [] s = "0" -> 4
      [] s = "1" -> 5
      [] s = "2021-01-05" -> 6
      [] s = "2021-02-05" -> 7
      [] s = "7" -> 8
      [] s = "A  b" -> 9
      [] s = "NO" -> 10
      [] s = "Unknown" -> 11
      [] s = "Yes" -> 12
      [] s = "maybe" -> 13
      [] s = "no" -> 14
      [] s = "x" -> 15
      [] s = "yes" -> 16
      [] OTHER -> 17

\* pd.to_numeric(value, errors='coerce') of one text value
ToNumeric(c) ==
    IF c.k = "num" THEN c
    ELSE IF c.k = "str" /\ c.s = "0" THEN Num(0)
    ELSE IF c.k = "str" /\ c.s = "1" THEN Num(1)
    ELSE IF c.k = "str" /\ c.s = "7" THEN Num(7)
    ELSE Null

\* the date_patterns substring probe of _is_datetime_column on one value
HasDatePattern(s) == Lower(s) \in {"2021-01-05", "2021-02-05", "maybe"}
\* pd.to_datetime(value, errors='raise') succeeds
ParsesAsDate(s) == s \in {"2021-01-05", "2021-02-05"}
\* pd.to_datetime(value, errors='coerce')
ToDatetime(c) ==
    IF c.k = "str" /\ c.s = "2021-01-05" THEN Ts(5)
    ELSE IF c.k = "str" /\ c.s = "2021-02-05" THEN Ts(36)
    ELSE Null

\* Series.astype(str) of one cell of an object column
AsStr(c) == IF IsNull(c) THEN "nan" ELSE c.s

-----------------------------------------------------------------------------
(* DataCleaningAgent._handle_missing_values *)

Median(col) ==
    LET s == SortInts(NumsOf(col))
        n == Len(s)
    IN  IF n = 0 THEN Null
        ELSE IF n % 2 = 1 THEN Raw(s[(n + 1) \div 2])
        ELSE Raw((s[n \div 2] + s[n \div 2 + 1]) \div 2)

FillNa(col, v) == [i \in 1..Len(col) |-> IF IsNull(col[i]) THEN v ELSE col[i]]

\* Series.mode().iloc[0], or "Unknown" when the mode is empty
ModeValue(col) ==
    LET d == DropNa(col)
        Count(c) == Cardinality({i \in 1..Len(d) : d[i] = c})
        vals == {d[i] : i \in 1..Len(d)}
        best == {c \in vals : \A o \in vals : Count(o) <= Count(c)}
    IN  IF vals = {} THEN Str("Unknown")
        ELSE CHOOSE c \in best : \A o \in best : StrRank(c.s) <= StrRank(o.s)

Unhashable(col) == \E i \in 1..Len(col) : col[i].k = "list"

Ffill(col) ==
    [i \in 1..Len(col) |->
        IF ~IsNull(col[i]) THEN col[i]
        ELSE LET prev == {j \in 1..(i - 1) : ~IsNull(col[j])}
             IN  IF prev = {} THEN Null
                 ELSE col[CHOOSE j \in prev : \A o \in prev : o <= j]]

Bfill(col) ==
    [i \in 1..Len(col) |->
        IF ~IsNull(col[i]) THEN col[i]
        ELSE LET nxt == {j \in (i + 1)..Len(col) : ~IsNull(col[j])}
             IN  IF nxt = {} THEN Null
                 ELSE col[CHOOSE j \in nxt : \A o \in nxt : j <= o]]

\* the loop over df.columns from column j on; the table is mutated in place,
\* so a raise leaves the columns before j imputed
RECURSIVE MissingValuesFrom(_, _, _)
MissingValuesFrom(t, j, report) ==
    IF j > NCols(t) THEN [df |-> t, raised |-> FALSE, report |-> report, error |-> ""]
    ELSE
    LET col == Column(t, j)
        lbl == t.labels[j]
        missing_count == CountNull(col)
        counted == [report EXCEPT !.missing_counts = MapPut(@, lbl, missing_count)]
        Done(newcol, method) ==
            MissingValuesFrom(SetColumn(t, j, newcol), j + 1,
                [counted EXCEPT !.imputation_methods = MapPut(@, lbl, method)])
    IN  IF missing_count = 0 THEN MissingValuesFrom(t, j + 1, report)
        ELSE IF t.dtypes[j] \in {"int64", "float64"}
             THEN Done(FillNa(col, Median(col)), "median")
        ELSE IF t.dtypes[j] = "object"
             THEN IF Unhashable(col)
                  THEN [df |-> t, raised |-> TRUE, report |-> counted,
                        error |-> "unhashable type: 'list'"]
                  ELSE Done(FillNa(col, ModeValue(col)), "mode")
        ELSE Done(Bfill(Ffill(col)), "forward_backward_fill")

_handle_missing_values(t) ==
    MissingValuesFrom(t, 1,
        [missing_counts |-> EmptyMap, imputation_methods |-> EmptyMap,
         columns_removed |-> <<>>])

-----------------------------------------------------------------------------
(* DataCleaningAgent._handle_duplicates *)

\* a percentage count / total * 100 as the exact fraction num / den
Pct(count, total) == [num |-> count * 100, den |-> total]
PctZero == [num |-> 0, den |-> 1]

\* DataFrame.drop_duplicates(): keep the first occurrence of every row
DropDuplicates(rows) ==
    LET keep == {i \in 1..Len(rows) : \A j \in 1..(i - 1) : rows[j] # rows[i]}
        F[i \in 0..Len(rows)] ==
            IF i = 0 THEN <<>>
            ELSE IF i \in keep THEN Append(F[i - 1], rows[i]) ELSE F[i - 1]
    IN  F[Len(rows)]

\* variant: the percentage taken relative to the row count after the removal
HandleDuplicatesPctAfter(t) ==
    LET original_count == NRows(t)
        bad == \E j \in ColIdx(t) : Unhashable(Column(t, j))
        out == [t EXCEPT !.rows = DropDuplicates(t.rows)]
        removed_count == original_count - NRows(out)
    IN  IF bad
        THEN [df |-> t, raised |-> TRUE, report |-> [duplicates_removed |-> 0,
              percentage_removed |-> PctZero], error |-> "unhashable type: 'list'"]
        ELSE [df |-> out, raised |-> FALSE, error |-> "",
              report |-> [duplicates_removed |-> removed_count,
                          percentage_removed |->
                              IF NRows(out) > 0
                              THEN Pct(removed_count, NRows(out))
                              ELSE PctZero]]

_handle_duplicates(t) ==
    LET original_count == NRows(t)
        bad == \E j \in ColIdx(t) : Unhashable(Column(t, j))
        out == [t EXCEPT !.rows = DropDuplicates(t.rows)]
        removed_count == original_count - NRows(out)
    IN  IF bad
        THEN [df |-> t, raised |-> TRUE, report |-> [duplicates_removed |-> 0,
              percentage_removed |-> PctZero], error |-> "unhashable type: 'list'"]
        ELSE [df |-> out, raised |-> FALSE, error |-> "",
              report |-> [duplicates_removed |-> removed_count,
                          percentage_removed |->
                              IF original_count > 0
                              THEN Pct(removed_count, original_count)
                              ELSE PctZero]]

-----------------------------------------------------------------------------
(* DataCleaningAgent._handle_outliers *)

IsNumeric(d) == d \in {"int64", "float64"}

\* 4 * Series.quantile(k / 4) of the sorted non-null values s (linear
\* interpolation at position (n - 1) * k / 4)
QuantileX4(s, k) ==
    LET p == (Len(s) - 1) * k
        i0 == p \div 4 + 1
        r == p % 4
    IN  IF r = 0 THEN 4 * s[i0] ELSE 4 * s[i0] + r * (s[i0 + 1] - s[i0])

\* 8 * (Q1 - 1.5 * IQR) and 8 * (Q3 + 1.5 * IQR)
Lower8(s) == 5 * QuantileX4(s, 1) - 3 * QuantileX4(s, 3)
Upper8(s) == 5 * QuantileX4(s, 3) - 3 * QuantileX4(s, 1)

IsOutlier(c, s) ==
    /\ ~IsNull(c)
    /\ s # <<>>
    /\ (8 * c.n < Lower8(s) \/ 8 * c.n > Upper8(s))

\* variant: only the upper bound is applied
ClipUpperOnly(c, s) ==
    IF IsNull(c) \/ s = <<>> THEN c
    ELSE IF 8 * c.n > Upper8(s) THEN Raw(Upper8(s) \div 8)
    ELSE c

\* Series.clip(lower, upper)
Clip(c, s) ==
    IF IsNull(c) \/ s = <<>> THEN c
    ELSE IF 8 * c.n < Lower8(s) THEN Raw(Lower8(s) \div 8)
    ELSE IF 8 * c.n > Upper8(s) THEN Raw(Upper8(s) \div 8)
    ELSE c

RECURSIVE OutliersFrom(_, _, _)
OutliersFrom(t, j, report) ==
    IF j > NCols(t) THEN [df |-> t, raised |-> FALSE, report |-> report, error |-> ""]
    ELSE IF ~IsNumeric(t.dtypes[j]) THEN OutliersFrom(t, j + 1, report)
    ELSE
    LET col == Column(t, j)
        lbl == t.labels[j]
        s == SortInts(NumsOf(col))
        outlier_count == Cardinality({i \in 1..Len(col) : IsOutlier(col[i], s)})
    IN  IF outlier_count > 0
        THEN OutliersFrom(
                SetColumn(t, j, [i \in 1..Len(col) |-> Clip(col[i], s)]), j + 1,
                [outliers_detected |-> MapPut(report.outliers_detected, lbl,
                    [count |-> outlier_count,
                     percentage |-> Pct(outlier_count, NRows(t)),
                     bounds |-> [lower |-> Lower8(s) \div 8,
                                 upper |-> Upper8(s) \div 8]]),
                 outliers_handled |-> MapPut(report.outliers_handled, lbl, "capped")])
        ELSE OutliersFrom(t, j + 1, report)

\* variant: the rows that hold an outlier are dropped
HandleOutliersDropping(t) ==
    LET res == OutliersFrom(t, 1, [outliers_detected |-> EmptyMap,
                                   outliers_handled |-> EmptyMap])
        Inlier(r) == \A j \in ColIdx(t) :
                        IsNumeric(t.dtypes[j]) =>
                            ~IsOutlier(r[j], SortInts(NumsOf(Column(t, j))))
    IN  [res EXCEPT !.df = [t EXCEPT !.rows = SelectSeq(t.rows, Inlier)]]

_handle_outliers(t) ==
    OutliersFrom(t, 1, [outliers_detected |-> EmptyMap, outliers_handled |-> EmptyMap])

-----------------------------------------------------------------------------
(* DataCleaningAgent._fix_data_types *)

Min(a, b) == IF a < b THEN a ELSE b

_is_datetime_column(col) ==
    LET d == DropNa(col)
        sample == SubSeq(d, 1, Min(10, Len(d)))
    IN  /\ Len(sample) > 0
        /\ \E i \in 1..Len(sample) : HasDatePattern(AsStr(sample[i]))
        /\ \A i \in 1..Len(sample) :
              sample[i].k = "str" /\ ParsesAsDate(sample[i].s)

bool_values == {"true", "false", "yes", "no", "1", "0", "t", "f", "y", "n"}

\* the .map({...}) of the boolean branch
BoolMap(c) ==
    LET v == Lower(AsStr(c))
    IN  IF v \in {"true", "yes", "1", "t", "y"} THEN Bool(TRUE)
        ELSE IF v \in {"false", "no", "0", "f", "n"} THEN Bool(FALSE)
        ELSE Null

\* One iteration of the loop body, exceptions caught per column.  strict:
\* pd.to_numeric(errors='coerce') raises TypeError on a non-scalar object
\* (otherwise it coerces it to NaN); both are outcomes of pandas builds.
FixColumn(t, j, report, strict) ==
    LET col == Column(t, j)
        lbl == t.labels[j]
        numeric_sample == [i \in 1..Len(col) |-> ToNumeric(col[i])]
        unique_values == {c \in {col[i] : i \in 1..Len(col)} : ~IsNull(c)}
    IN  IF t.dtypes[j] = "object"
        THEN IF strict /\ Unhashable(col)
             THEN [df |-> t,
                   report |-> [report EXCEPT !.conversion_errors =
                                  MapPut(@, lbl, "Invalid object type")]]
             ELSE IF Len(DropNa(numeric_sample)) * 10 > Len(col) * 8
             THEN [df |-> SetDtype(SetColumn(t, j, numeric_sample), j, "float64"),
                   report |-> [report EXCEPT !.type_conversions =
                                  MapPut(@, lbl, "object -> numeric")]]
             ELSE IF _is_datetime_column(col)
             THEN [df |-> SetDtype(SetColumn(t, j,
                              [i \in 1..Len(col) |-> ToDatetime(col[i])]), j, "datetime64"),
                   report |-> [report EXCEPT !.type_conversions =
                                  MapPut(@, lbl, "object -> datetime")]]
             ELSE [df |-> t, report |-> report]
        \* the second test of the same condition: `elif dtype == 'object'`
        ELSE IF t.dtypes[j] = "object"
        THEN IF Cardinality(unique_values) <= 2
                /\ \A v \in unique_values : Lower(AsStr(v)) \in bool_values
             THEN [df |-> SetDtype(SetColumn(t, j,
                              [i \in 1..Len(col) |-> BoolMap(col[i])]), j, "bool"),
                   report |-> [report EXCEPT !.type_conversions =
                                  MapPut(@, lbl, "object -> boolean")]]
             ELSE [df |-> t, report |-> report]
        ELSE [df |-> t, report |-> report]

RECURSIVE FixTypesFrom(_, _, _, _)
FixTypesFrom(t, j, report, strict) ==
    IF j > NCols(t) THEN [df |-> t, raised |-> FALSE, report |-> report, error |-> ""]
    ELSE LET r == FixColumn(t, j, report, strict)
         IN  FixTypesFrom(r.df, j + 1, r.report, strict)

_fix_data_types(t, strict) ==
    FixTypesFrom(t, 1, [type_conversions |-> EmptyMap, conversion_errors |-> EmptyMap],
                 strict)

-----------------------------------------------------------------------------
(* DataCleaningAgent._handle_inconsistent_values *)

Standardize(c) == Str(CollapseWs(Lower(Strip(AsStr(c)))))

RECURSIVE InconsistentFrom(_, _, _)
InconsistentFrom(t, j, report) ==
    IF j > NCols(t) THEN [df |-> t, raised |-> FALSE, report |-> report, error |-> ""]
    ELSE IF t.dtypes[j] # "object" THEN InconsistentFrom(t, j + 1, report)
    ELSE LET col == Column(t, j)
         IN  InconsistentFrom(
                SetColumn(t, j, [i \in 1..Len(col) |-> Standardize(col[i])]), j + 1,
                [report EXCEPT !.standardization_applied =
                    MapPut(@, t.labels[j], "case_normalization_and_whitespace_removal")])

_handle_inconsistent_values(t) ==
    InconsistentFrom(t, 1,
        [inconsistencies_fixed |-> EmptyMap, standardization_applied |-> EmptyMap])

-----------------------------------------------------------------------------
(* DataCleaningAgent._fix_formatting *)

\* column.lower() raises AttributeError when the label is not a str; the
\* stripped column has been assigned by then
RECURSIVE FormattingFrom(_, _, _)
FormattingFrom(t, j, report) ==
    IF j > NCols(t) THEN [df |-> t, raised |-> FALSE, report |-> report, error |-> ""]
    ELSE IF t.dtypes[j] # "object" THEN FormattingFrom(t, j + 1, report)
    ELSE
    LET col == Column(t, j)
        lbl == t.labels[j]
        stripped == SetColumn(t, j, [i \in 1..Len(col) |-> Str(Strip(AsStr(col[i])))])
        scol == Column(stripped, j)
    IN  IF lbl = "2021"   \* a label that is a Python int (an Excel header cell 2021)
        THEN [df |-> stripped, raised |-> TRUE, report |-> report,
              error |-> "'int' object has no attribute 'lower'"]
        \* 'price' in column.lower() or 'cost' in ... or 'amount' in ...
        ELSE IF lbl \in {"price", "Unit_Cost"}
        THEN FormattingFrom(
                SetColumn(stripped, j,
                    [i \in 1..Len(scol) |-> Str(CurrencyClean(scol[i].s))]), j + 1,
                [report EXCEPT !.formatting_fixes = MapPut(@, lbl, "currency_cleaning")])
        ELSE FormattingFrom(stripped, j + 1, report)

_fix_formatting(t) == FormattingFrom(t, 1, [formatting_fixes |-> EmptyMap])

-----------------------------------------------------------------------------
(* DataCleaningAgent._generate_cleaning_summary / _generate_recommendations *)

RECURSIVE MapSum(_)
MapSum(m) ==
    IF DOMAIN m = {} THEN 0
    ELSE LET x == CHOOSE x \in DOMAIN m : TRUE
         IN  m[x] + MapSum([y \in (DOMAIN m) \ {x} |-> m[y]])

\* max(m.items(), key=...): the first key, in column order, of maximal value
FirstMax(labels, m) ==
    LET idx == {i \in 1..Len(labels) : labels[i] \in DOMAIN m}
        top == {i \in idx : \A o \in idx : m[labels[o]] <= m[labels[i]]}
    IN  labels[CHOOSE i \in top : \A o \in top : i <= o]

HasField(step, f) == "report" \in DOMAIN step /\ f \in DOMAIN step.report

OutlierCounts(report) ==
    [l \in DOMAIN report.outliers_detected |-> report.outliers_detected[l].count]

StepRecommendations(labels, step) ==
    (IF HasField(step, "missing_counts") /\ DOMAIN step.report.missing_counts # {}
     THEN LET c == FirstMax(labels, step.report.missing_counts)
          IN  IF step.report.missing_counts[c] > 0
              THEN <<[about |-> "missing values", column |-> c,
                      count |-> step.report.missing_counts[c]]>>
              ELSE <<>>
     ELSE <<>>)
    \o
    (IF HasField(step, "outliers_detected") /\ DOMAIN step.report.outliers_detected # {}
     THEN LET c == FirstMax(labels, OutlierCounts(step.report))
          IN  IF step.report.outliers_detected[c].count > 0
              THEN <<[about |-> "outliers", column |-> c,
                      count |-> step.report.outliers_detected[c].count]>>
              ELSE <<>>
     ELSE <<>>)

RECURSIVE FlatMap(_, _)
FlatMap(steps, labels) ==
    IF steps = <<>> THEN <<>>
    ELSE StepRecommendations(labels, Head(steps)) \o FlatMap(Tail(steps), labels)

_generate_recommendations(steps, labels) ==
    LET recommendations == FlatMap(steps, labels)
    IN  IF recommendations = <<>>
        THEN <<[about |-> "data quality is good", column |-> "", count |-> 0]>>
        ELSE recommendations

_generate_cleaning_summary(steps, labels) ==
    LET StepIssues(step) ==
            (IF HasField(step, "missing_counts")
             THEN MapSum(step.report.missing_counts) ELSE 0)
            + (IF HasField(step, "outliers_detected")
               THEN MapSum(OutlierCounts(step.report)) ELSE 0)
        StepFixes(step) ==
            IF HasField(step, "duplicates_removed")
            THEN step.report.duplicates_removed ELSE 0
        total_issues == SeqSum([i \in 1..Len(steps) |-> StepIssues(steps[i])])
        total_fixes == SeqSum([i \in 1..Len(steps) |-> StepFixes(steps[i])])
    IN  [total_issues_found |-> total_issues,
         total_fixes_applied |-> total_fixes,
         data_quality_improvement |-> IF total_fixes > 0 THEN "significant" ELSE "minimal",
         recommendations |-> _generate_recommendations(steps, labels)]

-----------------------------------------------------------------------------
(* DataCleaningAgent.clean_data *)

\* self.cleaning_rules, in insertion order
cleaning_rules ==
    <<"missing_values", "duplicates", "outliers", "data_types",
      "inconsistent_values", "formatting">>

NoTable == [labels |-> <<>>, dtypes |-> <<>>, rows |-> <<>>]
NoReport == [original_shape |-> <<0, 0>>, cleaning_steps |-> <<>>,
             issues_found |-> <<>>, improvements |-> <<>>]

\* pc after the rule at position i of cleaning_rules
AfterRule(i) == IF i < Len(cleaning_rules) THEN cleaning_rules[i + 1] ELSE "final_validation"

\* lines 26-35: the report skeleton and the working copy
\* variant: no copy is made, cleaned_df names the caller's object
SameObject(t) == [table |-> t, is_argument |-> TRUE]

\* df.copy(): a new object with the same rows, columns and values
copy(t) == [table |-> t, is_argument |-> FALSE]

clean_data_begin ==
    /\ pc = "clean_data"
    /\ cleaned_df' = copy(df).table
    /\ alias' = copy(df).is_argument
    /\ cleaning_report' = [original_shape |-> Shape(df), cleaning_steps |-> <<>>,
                           issues_found |-> <<>>, improvements |-> <<>>]
    /\ pc' = cleaning_rules[1]
    /\ UNCHANGED <<chat_vars, pipeline_vars,
                   df, rule_input, second_report, analysis_results, facet_raised,
                   http_results, message, query_info>>

\* the entry appended for one rule: its report, or its error when it raised
StepEntry(rule_name, res) ==
    IF res.raised THEN [rule |-> rule_name, error |-> res.error]
    ELSE [rule |-> rule_name, report |-> res.report]

\* variant: a rule that raises ends the loop
ApplyRuleAbort(i, res) ==
    /\ pc = cleaning_rules[i]
    /\ rule_input' = cleaned_df
    /\ cleaned_df' = res.df
    /\ df' = (IF alias THEN res.df ELSE df)
    /\ cleaning_report' = [cleaning_report EXCEPT !.cleaning_steps =
                              Append(@, StepEntry(cleaning_rules[i], res))]
    /\ pc' = IF res.raised THEN "final_validation" ELSE AfterRule(i)
    /\ UNCHANGED <<chat_vars, pipeline_vars,
                   alias, second_report, analysis_results, facet_raised,
                   http_results, message, query_info>>

\* one iteration of the loop of lines 38-50; res is the outcome of the rule
\* function on cleaned_df, which the rule mutates in place: the caller's
\* table changes with it when cleaned_df is that very object
ApplyRule(i, res) ==
    /\ pc = cleaning_rules[i]
    /\ rule_input' = cleaned_df
    /\ cleaned_df' = res.df
    /\ df' = (IF alias THEN res.df ELSE df)
    /\ cleaning_report' = [cleaning_report EXCEPT !.cleaning_steps =
                              Append(@, StepEntry(cleaning_rules[i], res))]
    /\ pc' = AfterRule(i)
    /\ UNCHANGED <<chat_vars, pipeline_vars,
                   alias, second_report, analysis_results, facet_raised,
                   http_results, message, query_info>>

RuleMissingValues == ApplyRule(1, _handle_missing_values(cleaned_df))
RuleDuplicates == ApplyRule(2, _handle_duplicates(cleaned_df))
RuleOutliers == ApplyRule(3, _handle_outliers(cleaned_df))
RuleDataTypes == \E strict \in BOOLEAN : ApplyRule(4, _fix_data_types(cleaned_df, strict))
RuleInconsistentValues == ApplyRule(5, _handle_inconsistent_values(cleaned_df))
RuleFormatting == ApplyRule(6, _fix_formatting(cleaned_df))

\* lines 52-61: shapes and summary
clean_data_finish ==
    /\ pc = "final_validation"
    /\ cleaning_report' =
          [original_shape |-> cleaning_report.original_shape,
           cleaning_steps |-> cleaning_report.cleaning_steps,
           issues_found |-> cleaning_report.issues_found,
           improvements |-> cleaning_report.improvements,
           final_shape |-> Shape(cleaned_df),
           rows_removed |-> cleaning_report.original_shape[1] - NRows(cleaned_df),
           columns_removed |-> cleaning_report.original_shape[2] - NCols(cleaned_df),
           summary |-> _generate_cleaning_summary(cleaning_report.cleaning_steps,
                                                  cleaned_df.labels)]
    /\ pc' = "cleaned"
    /\ UNCHANGED <<chat_vars, pipeline_vars,
                   df, cleaned_df, rule_input, alias, second_report, analysis_results,
                   facet_raised, http_results, message, query_info>>

-----------------------------------------------------------------------------
(* Tables handed to clean_data *)

\* the columns of the modelled inputs: dtype and the values a cell can take
ColDtype(lbl) ==
    CASE lbl \in {"qty", "load", "amt", "units", "score", "rate"} -> "float64"
      [] lbl = "when" -> "datetime64"
      [] OTHER -> "object"

ColDomain(lbl) ==
    CASE lbl = "qty" -> {Null, Num(1), Num(2)}
      [] lbl = "flag" -> {Null, Str("Yes"), Str("no"), Str("maybe")}
      [] lbl = "tags" -> {Null, ListCell("['a']")}
      [] lbl = "price" -> {Null, Str("$5"), Str("$5 ")}
      [] lbl = "2021" -> {Str("A  b"), Str("x")}
      [] lbl = "when" -> {Null, Ts(1), Ts(2)}
      [] lbl = "code" -> {Str("7"), Str("1"), Str("x")}
      [] lbl = "day" -> {Str("2021-01-05"), Str("2021-02-05"), Str("maybe")}
      [] lbl = "score" -> {Num(1), Num(2), Num(3)}
      [] lbl = "load" -> {Null, Num(0), Num(1), Num(100)}
      [] lbl = "amt" -> {Num(0), Num(100)}
      [] lbl = "units" -> {Num(1), Num(2)}
      [] lbl = "rate" -> {Num(10), Num(11)}

Schemas ==
    {<<"qty", "tags">>, <<"price", "2021">>, <<"tags", "2021">>, <<"qty", "flag">>,
     <<"when", "code">>, <<"day", "qty">>}
RowsOf(labels) ==
    {r \in [1..Len(labels) -> UNION {ColDomain(labels[j]) : j \in 1..Len(labels)}] :
        \A j \in 1..Len(labels) : r[j] \in ColDomain(labels[j])}

SeqsUpTo(S, n) == UNION {[1..m -> S] : m \in 0..n}

TablesOf(labels, n) ==
    {[labels |-> labels,
      dtypes |-> [j \in 1..Len(labels) |-> ColDtype(labels[j])],
      rows |-> rows] : rows \in SeqsUpTo(RowsOf(labels), n)}

\* the one-column schema is taken one row longer so that quartile bounds can
\* exclude a value
\* longer tables with a text column of numbers: distinct rows in one fixed
\* order, so that four of five values can parse
CodeTables ==
    LET all == TablesOf(<<"code", "units">>, MaxCodeRows)
        Rank(r) == 2 * (CASE r[1].s = "7" -> 0 [] r[1].s = "1" -> 1 [] OTHER -> 2)
                       + (IF r[2] = Num(1) THEN 0 ELSE 1)
    IN  {t \in all : \A i \in 1..(NRows(t) - 1) : Rank(t.rows[i]) < Rank(t.rows[i + 1])}

CleanTables ==
    UNION ({TablesOf(labels, MaxRows) : labels \in Schemas}
           \cup {TablesOf(<<"qty">>, MaxRows + 1)})
        \cup CodeTables

Idle == "idle"

\* the conversational agent after construction, no message in progress
NoChat ==
    /\ context = Idle
    /\ response = Idle
    /\ sessions = EmptyMap
    /\ session_id = ""
    /\ history = <<>>
    /\ processed = EmptyMap

\* no endpoint running
NoPipeline ==
    /\ route = ""
    /\ calls = <<>>
    /\ insights = Idle
    /\ charts_data = EmptyMap
    /\ chart_raised = {}

InitClean ==
    /\ pc = "clean_data"
    /\ df \in CleanTables
    /\ cleaned_df = NoTable
    /\ cleaning_report = NoReport
    /\ rule_input = NoTable /\ alias = FALSE
    /\ second_report = Idle
    /\ analysis_results = EmptyMap
    /\ facet_raised = {}
    /\ http_results = EmptyMap
    /\ message = <<>>
    /\ query_info = Idle
    /\ NoChat
    /\ NoPipeline

NextClean ==
    \/ clean_data_begin
    \/ RuleMissingValues
    \/ RuleDuplicates
    \/ RuleOutliers
    \/ RuleDataTypes
    \/ RuleInconsistentValues
    \/ RuleFormatting
    \/ clean_data_finish

SpecClean == InitClean /\ [][NextClean]_vars

-----------------------------------------------------------------------------
(* Claims about clean_data *)

SixRules ==
    <<"missing_values", "duplicates", "outliers", "data_types",
      "inconsistent_values", "formatting">>

Steps == cleaning_report.cleaning_steps
StepRaised(i) == "error" \in DOMAIN Steps[i]

\* number of rules applied so far, by program position
RulesDone ==
    IF pc = "clean_data" THEN 0
    ELSE IF pc \in {"final_validation", "cleaned"} THEN 6
    ELSE (CHOOSE i \in 1..6 : SixRules[i] = pc) - 1

\* C1: the six rules are applied once each in the order missing-value
\* imputation, duplicate removal, outlier handling, type coercion,
\* categorical standardization, formatting fixes: at every point of clean the
\* entries of cleaning_steps are the rules applied so far, in that order, each
\* with a report or an error, and the finished report has exactly six.
C1_SixStepsInOrder ==
    pc \in {"clean_data", "final_validation", "cleaned"} \cup {SixRules[i] : i \in 1..6} =>
        /\ Len(Steps) = RulesDone
        /\ \A i \in 1..Len(Steps) :
              /\ Steps[i].rule = SixRules[i]
              /\ \/ DOMAIN Steps[i] = {"rule", "report"}
                 \/ DOMAIN Steps[i] = {"rule", "error"}
        /\ (pc = "cleaned" => Len(Steps) = 6)

\* a finished run in which the first two rules raised and the rest reported
C1_Witness ==
    /\ pc = "cleaned"
    /\ Len(Steps) = 6
    /\ StepRaised(1) /\ StepRaised(2) /\ ~StepRaised(3) /\ StepRaised(6)

\* C2 (as claimed): a rule that raised left the table exactly as it received it
C2_FailedRuleLeavesTable ==
    (Len(Steps) > 0 /\ pc # "clean_data" /\ StepRaised(Len(Steps)) /\ pc # "cleaned"
        /\ pc # "final_validation")
        => cleaned_df = rule_input

\* C3: duplicates_removed is the row count before the rule minus the number
\* of distinct rows, the table after the rule holds exactly the distinct rows,
\* and percentage_removed is duplicates_removed / rows before * 100
\* (0 for a table without rows).
C3_DuplicateCounts ==
    (pc = "outliers" /\ ~StepRaised(2)) =>
        LET r == Steps[2].report
            before == NRows(rule_input)
            distinct == {rule_input.rows[i] : i \in 1..before}
        IN  /\ r.duplicates_removed = before - Cardinality(distinct)
            /\ r.duplicates_removed = before - NRows(cleaned_df)
            /\ {cleaned_df.rows[i] : i \in 1..NRows(cleaned_df)} = distinct
            /\ r.percentage_removed.den # 0
            /\ r.percentage_removed.num * before =
                  r.duplicates_removed * 100 * r.percentage_removed.den
            /\ (before = 0 => r.percentage_removed.num = 0)

C3_Witness ==
    /\ pc = "outliers"
    /\ ~StepRaised(2)
    /\ Steps[2].report.duplicates_removed = 2
    /\ NRows(cleaned_df) = 1

\* the lowercased distinct non-null values of column j
LoweredValues(t, j) ==
    {Lower(AsStr(t.rows[i][j])) : i \in {i \in 1..NRows(t) : ~IsNull(t.rows[i][j])}}

\* C5 (as claimed): after type coercion a text column whose values are exactly
\* yes/no in any letter case holds True for yes and False for no, and a
\* yes/maybe column is untouched
C5_YesNoBecomesBoolean ==
    pc = "inconsistent_values" =>
        \A j \in ColIdx(rule_input) :
            rule_input.dtypes[j] = "object" =>
                /\ LoweredValues(rule_input, j) = {"yes", "no"} =>
                      /\ cleaned_df.dtypes[j] = "bool"
                      /\ \A i \in 1..NRows(rule_input) :
                            cleaned_df.rows[i][j] =
                                Bool(Lower(AsStr(rule_input.rows[i][j])) = "yes")
                /\ LoweredValues(rule_input, j) = {"yes", "maybe"} =>
                      Column(cleaned_df, j) = Column(rule_input, j)

\* C6 (as claimed): an entirely null numeric column stays entirely null and
\* the report does not record it as an ordinary 'median' imputation
C6_AllNullFlagged ==
    (pc = "duplicates" /\ ~StepRaised(1)) =>
        \A j \in ColIdx(rule_input) :
            (/\ IsNumeric(rule_input.dtypes[j])
             /\ NRows(rule_input) > 0
             /\ \A i \in 1..NRows(rule_input) : IsNull(rule_input.rows[i][j]))
            => /\ \A i \in 1..NRows(cleaned_df) : IsNull(cleaned_df.rows[i][j])
               /\ LET m == Steps[1].report.imputation_methods
                  IN  rule_input.labels[j] \in DOMAIN m
                          => m[rule_input.labels[j]] # "median"

-----------------------------------------------------------------------------
(* _handle_outliers applied to the table it has just produced *)

InitOutlier ==
    /\ pc = "handle_outliers"
    /\ df \in TablesOf(<<"load", "amt">>, MaxOutlierRows)
    /\ cleaned_df = df
    /\ cleaning_report = [NoReport EXCEPT !.original_shape = Shape(df)]
    /\ rule_input = NoTable /\ alias = FALSE
    /\ second_report = Idle
    /\ analysis_results = EmptyMap
    /\ facet_raised = {}
    /\ http_results = EmptyMap
    /\ message = <<>>
    /\ query_info = Idle
    /\ NoChat
    /\ NoPipeline

HandleOutliersOnce ==
    /\ pc = "handle_outliers"
    /\ LET res == _handle_outliers(cleaned_df)
       IN  /\ cleaned_df' = res.df
           /\ cleaning_report' = [cleaning_report EXCEPT !.cleaning_steps =
                                     Append(@, StepEntry("outliers", res))]
    /\ rule_input' = cleaned_df
    /\ pc' = "handle_outliers_again"
    /\ UNCHANGED <<chat_vars, pipeline_vars,
                   df, alias, second_report, analysis_results, facet_raised,
                   http_results, message, query_info>>

HandleOutliersAgain ==
    /\ pc = "handle_outliers_again"
    /\ LET res == _handle_outliers(cleaned_df)
       IN  /\ cleaned_df' = res.df
           /\ second_report' = res.report
    /\ rule_input' = cleaned_df
    /\ pc' = "capped_twice"
    /\ UNCHANGED <<chat_vars, pipeline_vars,
                   df, alias, cleaning_report, analysis_results, facet_raised,
                   http_results, message, query_info>>

NextOutlier == HandleOutliersOnce \/ HandleOutliersAgain

SpecOutlier == InitOutlier /\ [][NextOutlier]_vars

\* C4 (as claimed): the second application, with bounds recomputed from the
\* capped column, detects no outlier and changes no value
C4_SecondPassChangesNothing ==
    pc = "capped_twice" =>
        /\ DOMAIN second_report.outliers_detected = {}
        /\ cleaned_df = rule_input

\* C4 (amended): after one application no value of a numeric column lies
\* outside the bounds that application computed and reported, capped values
\* sit exactly on the bound they exceeded, values inside the bounds and columns
\* without outliers are unchanged.
C4_NoValueOutsideLastBounds ==
    pc = "handle_outliers_again" =>
        LET detected == Steps[1].report.outliers_detected
        IN  \A j \in ColIdx(cleaned_df) :
              LET lbl == cleaned_df.labels[j]
                  s == SortInts(NumsOf(Column(rule_input, j)))
              IN  IF lbl \in DOMAIN detected
                  THEN /\ detected[lbl].bounds.lower * 8 = Lower8(s)
                       /\ detected[lbl].bounds.upper * 8 = Upper8(s)
                       /\ \A i \in 1..NRows(cleaned_df) :
                            LET old == rule_input.rows[i][j]
                                new == cleaned_df.rows[i][j]
                            IN  IF IsNull(old) THEN IsNull(new)
                                ELSE /\ ~IsNull(new)
                                     /\ detected[lbl].bounds.lower <= new.n
                                     /\ new.n <= detected[lbl].bounds.upper
                                     /\ new.n = IF old.n < detected[lbl].bounds.lower
                                                THEN detected[lbl].bounds.lower
                                                ELSE IF old.n > detected[lbl].bounds.upper
                                                THEN detected[lbl].bounds.upper
                                                ELSE old.n
                  ELSE Column(cleaned_df, j) = Column(rule_input, j)

\* a first application that capped a value below the lower bound
C4_Witness ==
    /\ pc = "handle_outliers_again"
    /\ "load" \in DOMAIN Steps[1].report.outliers_detected
    /\ \E i \in 1..NRows(cleaned_df) :
          /\ ~IsNull(rule_input.rows[i][1])
          /\ rule_input.rows[i][1].n < cleaned_df.rows[i][1].n

-----------------------------------------------------------------------------
(* Values of result mappings (what json would serialise) *)

Dict(m) == [t |-> "dict", v |-> m]
List(q) == [t |-> "list", v |-> q]
Txt(x) == [t |-> "str", v |-> x]
IntV(n) == [t |-> "int", v |-> n]
None == [t |-> "none", v |-> 0]
\* a Python float: the ratio n / d, sqrt(n / d), n / sqrt(d), or a finite
\* value whose magnitude is not tracked
Float(n, d) == [t |-> "float", v |-> [nan |-> FALSE, form |-> "ratio", n |-> n, d |-> d]]
FloatSqrt(n, d) == [t |-> "float", v |-> [nan |-> FALSE, form |-> "sqrt", n |-> n, d |-> d]]
FloatCorr(n, d) == [t |-> "float", v |-> [nan |-> FALSE, form |-> "corr", n |-> n, d |-> d]]
\* sgn(n) * sqrt(|n| / d)
FloatSkew(n, d) == [t |-> "float", v |-> [nan |-> FALSE, form |-> "skew", n |-> n, d |-> d]]
FloatFinite == [t |-> "float", v |-> [nan |-> FALSE, form |-> "finite", n |-> 0, d |-> 1]]
NaN == [t |-> "float", v |-> [nan |-> TRUE, form |-> "ratio", n |-> 0, d |-> 1]]

IsNaN(x) == x.t = "float" /\ x.v.nan
Msg(text) == Dict([message |-> Txt(text)])
EmptyDict == Dict(EmptyMap)

\* what a call yields when an exception leaves it
Raised == [t |-> "raise", v |-> 0]

Abs(x) == IF x < 0 THEN -x ELSE x

RECURSIVE Gcd(_, _)
Gcd(a, b) == IF b = 0 THEN a ELSE Gcd(b, a % b)

RECURSIVE GcdAll(_)
GcdAll(q) == IF q = <<>> THEN 0 ELSE Gcd(Head(q), GcdAll(Tail(q)))

\* the values shifted to start at 0 and divided by their common unit;
\* skewness and Pearson correlation are invariant under this map
Normalize(q) ==
    IF q = <<>> THEN q
    ELSE LET lo == SortInts(q)[1]
             shifted == [i \in 1..Len(q) |-> q[i] - lo]
             g == GcdAll(shifted)
         IN  IF g = 0 THEN shifted ELSE [i \in 1..Len(q) |-> shifted[i] \div g]

Sq(q) == [i \in 1..Len(q) |-> q[i] * q[i]]
Prod(a, b) == [i \in 1..Len(a) |-> a[i] * b[i]]

\* numeric columns (select_dtypes(include=[np.number])), as column indexes
NumericCols(t) == {j \in ColIdx(t) : IsNumeric(t.dtypes[j])}
\* numeric columns that have at least one non-null value
DataCols(t) == {j \in NumericCols(t) : Len(DropNa(Column(t, j))) > 0}
LabelsOf(t, J) == {t.labels[j] : j \in J}
IdxOf(t, lbl) == CHOOSE j \in ColIdx(t) : t.labels[j] = lbl

\* b * Series.quantile(a / b) of the sorted values q
QuantileXN(q, a, b) ==
    LET p == (Len(q) - 1) * a
        i0 == p \div b + 1
        r == p % b
    IN  IF r = 0 THEN b * q[i0] ELSE b * q[i0] + r * (q[i0 + 1] - q[i0])

\* n * sum of squared deviations of q from its mean
Dev2(q) == Len(q) * SeqSum(Sq(q)) - SeqSum(q) * SeqSum(q)

\* Series.skew(): undefined below three values, 0 for a constant column; with
\* A = sum d^3 and B = sum d^2 for d = n * (x - mean), the adjusted
\* skewness G1 has the sign of A and G1^2 = n^2 (n - 1) A^2 / ((n - 2)^2 B^3)
Skew(q) ==
    LET n == Len(q)
        u == Normalize(q)
        d == [i \in 1..n |-> n * u[i] - SeqSum(u)]
        A == SeqSum([i \in 1..n |-> d[i] * d[i] * d[i]])
        B == SeqSum(Sq(d))
    IN  IF n < 3 THEN NaN
        ELSE IF B = 0 THEN Float(0, 1)
        ELSE FloatSkew((IF A < 0 THEN -1 ELSE 1) * n * n * (n - 1) * A * A,
                       (n - 2) * (n - 2) * B * B * B)
\* abs(Series.skew()) < 0.5 (False when the skewness is NaN)
SkewBelowHalf(q) ==
    LET n == Len(q)
        u == Normalize(q)
        d == [i \in 1..n |-> n * u[i] - SeqSum(u)]
        A == SeqSum([i \in 1..n |-> d[i] * d[i] * d[i]])
        B == SeqSum(Sq(d))
    IN  /\ n >= 3
        /\ (B = 0 \/ 4 * n * n * (n - 1) * A * A < (n - 2) * (n - 2) * B * B * B)

\* Series.kurtosis(): undefined below four values
Kurtosis(q) == IF Len(q) < 4 THEN NaN ELSE FloatFinite

-----------------------------------------------------------------------------
(* AnalysisService._get_basic_statistics *)

ColumnStats(col) ==
    LET q == SortInts(NumsOf(col))
    IN  Dict([mean |-> Float(SeqSum(q), Len(q)),
              median |-> Float(Median(col).n, 1),
              \* Series.std() (ddof = 1): undefined for a single value
              std |-> IF Len(q) < 2 THEN NaN
                      ELSE FloatSqrt(Dev2(q), Len(q) * (Len(q) - 1)),
              min |-> Float(q[1], 1),
              max |-> Float(q[Len(q)], 1),
              q25 |-> Float(QuantileXN(q, 1, 4), 4),
              q75 |-> Float(QuantileXN(q, 3, 4), 4),
              skewness |-> Skew(q),
              kurtosis |-> Kurtosis(q)])

\* raises: an exception escaped the try block
_get_basic_statistics(t, raises) ==
    IF raises THEN EmptyDict
    ELSE IF NumericCols(t) = {}
    THEN Msg("No numeric columns found for statistical analysis")
    ELSE Dict([lbl \in LabelsOf(t, DataCols(t)) |-> ColumnStats(Column(t, IdxOf(t, lbl)))])

-----------------------------------------------------------------------------
(* AnalysisService._detect_trends *)

\* CellHasDatePattern: the date_patterns probe on str(x) of one sampled
\* value: text by the text table; of the modelled numbers only a negative one
\* has a pattern ('-').  The last conjunct: pd.to_datetime(df[col]) does not
\* raise.
LooksLikeDates(col) ==
    LET d == DropNa(col)
        sample_values == SubSeq(d, 1, Min(5, Len(d)))
        CellHasDatePattern(c) ==
            \/ c.k \in {"str", "list"} /\ HasDatePattern(c.s)
            \/ c.k = "num" /\ c.n < 0
    IN  /\ Len(sample_values) > 0
        /\ \E i \in 1..Len(sample_values) : CellHasDatePattern(sample_values[i])
        /\ \A i \in 1..Len(col) :
              \/ col[i].k \in {"null", "num", "ts"}
              \/ col[i].k = "str" /\ ParsesAsDate(col[i].s)

\* index of the date column, 0 when there is none
DateCol(t) ==
    LET typed == {j \in ColIdx(t) : t.dtypes[j] = "datetime64"}
        sniffed == {j \in ColIdx(t) : LooksLikeDates(Column(t, j))}
    IN  IF typed # {} THEN CHOOSE j \in typed : \A o \in typed : j <= o
        ELSE IF sniffed # {} THEN CHOOSE j \in sniffed : \A o \in sniffed : j <= o
        ELSE 0

\* pd.to_datetime(value, errors='coerce') as a sort key; NaT sorts last
DateKey(c) ==
    IF c.k = "ts" \/ c.k = "num" THEN c.n
    ELSE IF ~IsNull(ToDatetime(c)) THEN ToDatetime(c).n
    ELSE 1000000

\* DataFrame.sort_values(date_col): rows by ascending key, ties in row order
RECURSIVE SortRows(_, _)
SortRows(rows, j) ==
    IF rows = <<>> THEN <<>>
    ELSE LET m == CHOOSE i \in 1..Len(rows) :
                     \A o \in 1..Len(rows) :
                        \/ DateKey(rows[i][j]) < DateKey(rows[o][j])
                        \/ DateKey(rows[i][j]) = DateKey(rows[o][j]) /\ i <= o
             rest == [o \in 1..(Len(rows) - 1) |-> IF o < m THEN rows[o] ELSE rows[o + 1]]
         IN  <<rows[m]>> \o SortRows(rest, j)

\* What the build's least-squares routine does where the mathematics leaves
\* it open.  nan: for a y containing NaN it returns a NaN fit (otherwise it
\* raises LinAlgError).  residue: the sign of the rounding error it returns
\* as the slope of a constant, non-zero y.
LstsqOutcomes == [nan : BOOLEAN, residue : {-1, 0, 1}]

\* np.polyfit(x, y, 1)[0]: the least-squares slope of y against 0..n-1, as
\* the ratio slope / den.  A y of zeros has slope 0.0 exactly; for another
\* constant y the slope is 0.0 or a rounding error of the order of 1e-9 and
\* less, of either sign.
TrendOf(y, residue) ==
    LET n == Len(y)
        x == [i \in 1..n |-> i - 1]
        exact == n * SeqSum(Prod(x, y)) - SeqSum(x) * SeqSum(y)
        flat == exact = 0 /\ \E i \in 1..n : y[i] # 0
        slope == IF flat THEN residue ELSE exact
        den == IF flat THEN 1000000
               ELSE n * SeqSum(Sq(x)) - SeqSum(x) * SeqSum(x)
    IN  Dict([direction |-> Txt(IF slope > 0 THEN "increasing" ELSE "decreasing"),
              strength |-> Float(Abs(slope), den),
              slope |-> Float(slope, den)])


\* a LinAlgError of np.polyfit is swallowed by the inner try (the column is
\* skipped)
_detect_trends(t, raises, lstsq) ==
    IF raises THEN EmptyDict
    ELSE IF DateCol(t) = 0 THEN EmptyDict
    ELSE
    LET date_col == DateCol(t)
        df_temp == [t EXCEPT !.rows = SortRows(t.rows, date_col),
                             !.dtypes[date_col] = "datetime64"]
        HasNull(j) == CountNull(Column(df_temp, j)) > 0
        cols == {j \in NumericCols(df_temp) :
                    /\ j # date_col
                    /\ NRows(df_temp) > 1
                    /\ (HasNull(j) => lstsq.nan)}
    IN  Dict([lbl \in LabelsOf(df_temp, cols) |->
                LET j == IdxOf(df_temp, lbl)
                IN  IF HasNull(j)   \* a NaN slope (NaN > 0 is False)
                    THEN Dict([direction |-> Txt("decreasing"),
                               strength |-> NaN, slope |-> NaN])
                    ELSE TrendOf(NumsOf(Column(df_temp, j)), lstsq.residue)])

-----------------------------------------------------------------------------
(* AnalysisService._analyze_correlations *)

\* DataFrame.corr() entry of columns a and b: Pearson r over the rows where
\* both are present, NaN when either has no variance there
PairValues(t, a, b, j) ==
    LET F[i \in 0..NRows(t)] ==
            IF i = 0 THEN <<>>
            ELSE IF ~IsNull(t.rows[i][a]) /\ ~IsNull(t.rows[i][b])
            THEN Append(F[i - 1], t.rows[i][j].n)
            ELSE F[i - 1]
    IN  F[NRows(t)]

Corr(t, a, b) ==
    LET x == Normalize(PairValues(t, a, b, a))
        y == Normalize(PairValues(t, a, b, b))
    IN  IF Dev2(x) * Dev2(y) = 0 THEN NaN
        ELSE FloatCorr(Len(x) * SeqSum(Prod(x, y)) - SeqSum(x) * SeqSum(y),
                       Dev2(x) * Dev2(y))

\* abs(r) > num / 10 for a correlation value r = n / sqrt(d)
AbsAbove(r, num) == ~IsNaN(r) /\ 100 * r.v.n * r.v.n > num * num * r.v.d

\* variant: every listed pair is tagged strong
StrongCorrelationsOneTag(t) ==
    LET C[j \in 0..NCols(t)] ==
            IF j = 0 THEN <<>>
            ELSE IF IsNumeric(t.dtypes[j]) THEN Append(C[j - 1], j) ELSE C[j - 1]
        cols == C[NCols(t)]
        n == Len(cols)
        P[k \in 0..(n * n)] ==
            IF k = 0 THEN <<>>
            ELSE LET i == ((k - 1) \div n) + 1
                     j == ((k - 1) % n) + 1
                 IN  IF i < j THEN Append(P[k - 1], <<cols[i], cols[j]>>) ELSE P[k - 1]
        pairs == P[n * n]
        F[k \in 0..Len(pairs)] ==
            IF k = 0 THEN <<>>
            ELSE LET corr_value == Corr(t, pairs[k][1], pairs[k][2])
                 IN  IF AbsAbove(corr_value, 7)
                     THEN Append(F[k - 1],
                            Dict([variable1 |-> Txt(t.labels[pairs[k][1]]),
                                  variable2 |-> Txt(t.labels[pairs[k][2]]),
                                  correlation |-> corr_value,
                                  strength |-> Txt("strong")]))
                     ELSE F[k - 1]
    IN  F[Len(pairs)]

\* cols: the numeric column indexes in column order; pairs: the pairs
\* (i, j), i < j, of the double loop, in loop order
StrongCorrelations(t) ==
    LET C[j \in 0..NCols(t)] ==
            IF j = 0 THEN <<>>
            ELSE IF IsNumeric(t.dtypes[j]) THEN Append(C[j - 1], j) ELSE C[j - 1]
        cols == C[NCols(t)]
        n == Len(cols)
        P[k \in 0..(n * n)] ==
            IF k = 0 THEN <<>>
            ELSE LET i == ((k - 1) \div n) + 1
                     j == ((k - 1) % n) + 1
                 IN  IF i < j THEN Append(P[k - 1], <<cols[i], cols[j]>>) ELSE P[k - 1]
        pairs == P[n * n]
        F[k \in 0..Len(pairs)] ==
            IF k = 0 THEN <<>>
            ELSE LET corr_value == Corr(t, pairs[k][1], pairs[k][2])
                 IN  IF AbsAbove(corr_value, 7)
                     THEN Append(F[k - 1],
                            Dict([variable1 |-> Txt(t.labels[pairs[k][1]]),
                                  variable2 |-> Txt(t.labels[pairs[k][2]]),
                                  correlation |-> corr_value,
                                  strength |-> Txt(IF AbsAbove(corr_value, 8)
                                                   THEN "strong" ELSE "moderate")]))
                     ELSE F[k - 1]
    IN  F[Len(pairs)]

\* max(strong_correlations, key=abs(correlation)): the first of maximal |r|
HighestCorrelation(strong) ==
    IF strong = <<>> THEN None
    ELSE LET AbsGeq(r1, r2) == r1.v.n * r1.v.n * r2.v.d >= r2.v.n * r2.v.n * r1.v.d
             top == {i \in 1..Len(strong) : \A o \in 1..Len(strong) :
                        AbsGeq(strong[i].v.correlation, strong[o].v.correlation)}
         IN  strong[CHOOSE i \in top : \A o \in top : i <= o]

_analyze_correlations(t, raises) ==
    IF raises THEN EmptyDict
    ELSE IF Cardinality(NumericCols(t)) < 2
    THEN Msg("Insufficient numeric columns for correlation analysis")
    ELSE
    LET names == LabelsOf(t, NumericCols(t))
        strong_correlations == StrongCorrelations(t)
    IN  Dict([correlation_matrix |->
                 Dict([a \in names |-> Dict([b \in names |->
                        Corr(t, IdxOf(t, a), IdxOf(t, b))])]),
              strong_correlations |-> List(strong_correlations),
              highest_correlation |-> HighestCorrelation(strong_correlations)])

-----------------------------------------------------------------------------
(* AnalysisService._detect_anomalies *)

AnomalousCols(t) ==
    {j \in DataCols(t) :
        LET col == DropNa(Column(t, j))
        IN  \E i \in 1..Len(col) : IsOutlier(col[i], SortInts(NumsOf(col)))}

AnomalyOf(col_data) ==
    LET q == SortInts(NumsOf(col_data))
        outliers == SelectSeq(col_data, LAMBDA c : IsOutlier(c, q))
    IN  Dict([count |-> IntV(Len(outliers)),
              percentage |-> Float(Len(outliers) * 100, Len(col_data)),
              outlier_values |-> List([i \in 1..Len(outliers) |-> Float(outliers[i].n, 1)]),
              bounds |-> Dict([lower |-> Float(Lower8(q), 8),
                               upper |-> Float(Upper8(q), 8)])])

\* variant: the function has no except clause of its own
DetectAnomaliesUncaught(t, raises) ==
    IF raises THEN Raised
    ELSE Dict([lbl \in LabelsOf(t, AnomalousCols(t)) |->
                AnomalyOf(DropNa(Column(t, IdxOf(t, lbl))))])

_detect_anomalies(t, raises) ==
    IF raises THEN EmptyDict
    ELSE Dict([lbl \in LabelsOf(t, AnomalousCols(t)) |->
                AnomalyOf(DropNa(Column(t, IdxOf(t, lbl))))])

-----------------------------------------------------------------------------
(* AnalysisService._identify_patterns and its three parts *)

_detect_seasonality == Msg("Seasonality detection not implemented yet")

\* rows of the numeric columns without any missing value (numeric_df.dropna())
CompleteRows(t) ==
    {i \in 1..NRows(t) : \A j \in NumericCols(t) : ~IsNull(t.rows[i][j])}

\* variant: the count is not tested against 2
IdentifyClustersAnyCount(t, raises) ==
    IF raises THEN Msg("Clustering failed")
    ELSE IF Cardinality(NumericCols(t)) < 2
    THEN Msg("Insufficient numeric columns for clustering")
    ELSE IF Cardinality(CompleteRows(t)) < 10
    THEN Msg("Insufficient clean data for clustering")
    ELSE LET n_clusters == Min(5, Cardinality(CompleteRows(t)) \div 10)
         IN  Dict([n_clusters |-> IntV(n_clusters),
                   data_points_used |-> IntV(Cardinality(CompleteRows(t))),
                   data_points_excluded |->
                       IntV(NRows(t) - Cardinality(CompleteRows(t)))])

\* The KMeans fit itself (cluster_sizes, cluster_centers) is not modelled.
_identify_clusters(t, raises) ==
    IF raises THEN Msg("Clustering failed")
    ELSE IF Cardinality(NumericCols(t)) < 2
    THEN Msg("Insufficient numeric columns for clustering")
    ELSE IF Cardinality(CompleteRows(t)) < 10
    THEN Msg("Insufficient clean data for clustering")
    ELSE LET n_clusters == Min(5, Cardinality(CompleteRows(t)) \div 10)
         IN  IF n_clusters < 2 THEN Msg("Insufficient data for clustering")
             ELSE Dict([n_clusters |-> IntV(n_clusters),
                        data_points_used |-> IntV(Cardinality(CompleteRows(t))),
                        data_points_excluded |->
                            IntV(NRows(t) - Cardinality(CompleteRows(t)))])

DistributionOf(col) ==
    LET q == SortInts(NumsOf(col))
    IN  Dict([distribution_type |-> Txt(IF SkewBelowHalf(q) THEN "normal" ELSE "skewed"),
              skewness |-> Skew(q),
              kurtosis |-> Kurtosis(q),
              percentiles |->
                  Dict([key \in {"10th", "25th", "50th", "75th", "90th"} |->
                        CASE key = "10th" -> Float(QuantileXN(q, 1, 10), 10)
                          [] key = "25th" -> Float(QuantileXN(q, 1, 4), 4)
                          [] key = "50th" -> Float(QuantileXN(q, 1, 2), 2)
                          [] key = "75th" -> Float(QuantileXN(q, 3, 4), 4)
                          [] key = "90th" -> Float(QuantileXN(q, 9, 10), 10)])])

_analyze_distributions(t, raises) ==
    IF raises THEN EmptyDict
    ELSE Dict([lbl \in LabelsOf(t, DataCols(t)) |-> DistributionOf(Column(t, IdxOf(t, lbl)))])

\* the parts catch their own exceptions, so the outer except is not reached
_identify_patterns(t, clusters_raise, distributions_raise) ==
    Dict([seasonality |-> _detect_seasonality,
          clusters |-> _identify_clusters(t, clusters_raise),
          distributions |-> _analyze_distributions(t, distributions_raise)])

_perform_segmentation == Msg("Segmentation analysis not implemented yet")
_generate_forecasts == Msg("Forecasting not implemented yet")

-----------------------------------------------------------------------------
(* AnalysisService._convert_numpy_to_python and the route's replace_nan_recursive *)

\* dicts and lists are rebuilt, numpy arrays and scalars become their Python
\* equivalent (a NaN stays a NaN), anything else is returned as it is
RECURSIVE _convert_numpy_to_python(_)
_convert_numpy_to_python(obj) ==
    IF obj.t = "dict"
    THEN Dict([key \in DOMAIN obj.v |-> _convert_numpy_to_python(obj.v[key])])
    ELSE IF obj.t = "list"
    THEN List([i \in 1..Len(obj.v) |-> _convert_numpy_to_python(obj.v[i])])
    ELSE IF obj.t = "ndarray"
    THEN List(obj.v)
    ELSE IF obj.t = "np.float64"
    THEN [t |-> "float", v |-> obj.v]
    ELSE obj

RECURSIVE replace_nan_recursive(_)
replace_nan_recursive(obj) ==
    IF obj.t = "dict"
    THEN Dict([key \in DOMAIN obj.v |-> replace_nan_recursive(obj.v[key])])
    ELSE IF obj.t = "list"
    THEN List([i \in 1..Len(obj.v) |-> replace_nan_recursive(obj.v[i])])
    ELSE IF obj.t = "float" /\ obj.v.nan
    THEN None
    ELSE obj

\* some leaf of the value is a not-a-number float
RECURSIVE ContainsNaN(_)
ContainsNaN(obj) ==
    IF obj.t = "dict" THEN \E key \in DOMAIN obj.v : ContainsNaN(obj.v[key])
    ELSE IF obj.t = "list" THEN \E i \in 1..Len(obj.v) : ContainsNaN(obj.v[i])
    ELSE IsNaN(obj)

-----------------------------------------------------------------------------
(* AnalysisService.analyze_data *)

\* the keys of the result, in the order their values are computed
FacetKeys ==
    <<"basic_stats", "trends", "correlations", "anomalies", "patterns",
      "segments", "forecasts">>

MayRaise == Cardinality(facet_raised) < MaxFacetFaults

\* One entry of the dict display of lines 27-35.  value is what the facet
\* function returned; an exception leaving it reaches the except of lines
\* 42-44, which re-raises.
Facet(i, value, raisedNow) ==
    /\ pc = FacetKeys[i]
    /\ IF value.t = "raise"
       THEN /\ pc' = "analyze_failed"
            /\ UNCHANGED analysis_results
       ELSE /\ pc' = IF i < Len(FacetKeys) THEN FacetKeys[i + 1] ELSE "convert"
            /\ analysis_results' = MapPut(analysis_results, FacetKeys[i], value)
    /\ facet_raised' = facet_raised \cup raisedNow
    /\ UNCHANGED <<chat_vars, pipeline_vars,
                   df, cleaned_df, cleaning_report, rule_input, alias, second_report,
                   http_results, message, query_info>>

Fault(name, raises) == IF raises THEN {name} ELSE {}

FacetBasicStats ==
    \E raises \in {r \in BOOLEAN : r => MayRaise} :
        Facet(1, _get_basic_statistics(df, raises), Fault("basic_stats", raises))

FacetTrends ==
    \E raises \in {r \in BOOLEAN : r => MayRaise}, lstsq \in LstsqOutcomes :
        Facet(2, _detect_trends(df, raises, lstsq), Fault("trends", raises))

FacetCorrelations ==
    \E raises \in {r \in BOOLEAN : r => MayRaise} :
        Facet(3, _analyze_correlations(df, raises), Fault("correlations", raises))

FacetAnomalies ==
    \E raises \in {r \in BOOLEAN : r => MayRaise} :
        Facet(4, _detect_anomalies(df, raises), Fault("anomalies", raises))

FacetPatterns ==
    \E clusters_raise \in {r \in BOOLEAN : r => MayRaise},
       distributions_raise \in {r \in BOOLEAN : r => MayRaise} :
        /\ Cardinality(facet_raised \cup Fault("clusters", clusters_raise)
              \cup Fault("distributions", distributions_raise)) <= MaxFacetFaults
        /\ Facet(5, _identify_patterns(df, clusters_raise, distributions_raise),
                 Fault("clusters", clusters_raise)
                     \cup Fault("distributions", distributions_raise))

FacetSegments == Facet(6, _perform_segmentation, {})

FacetForecasts == Facet(7, _generate_forecasts, {})

\* line 38-40
analyze_data_convert ==
    /\ pc = "convert"
    /\ analysis_results' = _convert_numpy_to_python(Dict(analysis_results)).v
    /\ pc' = "analyzed"
    /\ UNCHANGED <<chat_vars, pipeline_vars,
                   df, cleaned_df, cleaning_report, rule_input, alias, second_report,
                   facet_raised, http_results, message, query_info>>

\* routes/data.py lines 153-166: the HTTP handler's pass over the result
route_replace_nan ==
    /\ pc = "analyzed"
    /\ http_results' = replace_nan_recursive(Dict(analysis_results)).v
    /\ pc' = "responded"
    /\ UNCHANGED <<chat_vars, pipeline_vars,
                   df, cleaned_df, cleaning_report, rule_input, alias, second_report,
                   analysis_results, facet_raised, message, query_info>>

\* DataService.read_file rejects a file without rows
AnalyzeTables ==
    {t \in UNION ({TablesOf(labels, MaxAnalyzeRows) :
                        labels \in {<<"qty", "units">>, <<"when", "qty">>,
                                    <<"when", "amt">>, <<"day", "units">>,
                                    <<"flag">>}}
                  \cup {TablesOf(<<"units">>, MaxAnalyzeRows + 2)}) :
        NRows(t) > 0}

InitAnalyze ==
    /\ pc = FacetKeys[1]
    /\ df \in AnalyzeTables
    /\ cleaned_df = NoTable
    /\ cleaning_report = NoReport
    /\ rule_input = NoTable /\ alias = FALSE
    /\ second_report = Idle
    /\ analysis_results = EmptyMap
    /\ facet_raised = {}
    /\ http_results = EmptyMap
    /\ message = <<>>
    /\ query_info = Idle
    /\ NoChat
    /\ NoPipeline

NextAnalyze ==
    \/ FacetBasicStats
    \/ FacetTrends
    \/ FacetCorrelations
    \/ FacetAnomalies
    \/ FacetPatterns
    \/ FacetSegments
    \/ FacetForecasts
    \/ analyze_data_convert
    \/ route_replace_nan

SpecAnalyze == InitAnalyze /\ [][NextAnalyze]_vars

MaxCorrelationRows == 4
MaxClusterRows == 61
MaxNarrateRows == 4

\* tables of three numeric columns, long enough for correlations strictly
\* between 0.7 and 0.8; Pearson r does not depend on the order of the rows,
\* so the rows are taken in ascending order of the first column
CorrelationTables ==
    {t \in TablesOf(<<"score", "units", "amt">>, MaxCorrelationRows) :
        /\ NRows(t) > 0
        /\ \A i \in 1..(NRows(t) - 1) : t.rows[i][1].n <= t.rows[i + 1][1].n}

\* _analyze_correlations on its own: the third entry of analyze_data
InitCorrelate ==
    /\ pc = FacetKeys[3]
    /\ df \in CorrelationTables
    /\ cleaned_df = NoTable /\ cleaning_report = NoReport
    /\ rule_input = NoTable /\ alias = FALSE /\ second_report = Idle
    /\ analysis_results = EmptyMap /\ facet_raised = {} /\ http_results = EmptyMap
    /\ message = <<>> /\ query_info = Idle
    /\ NoChat /\ NoPipeline

NextCorrelate == FacetCorrelations

SpecCorrelate == InitCorrelate /\ [][NextCorrelate]_vars

\* tables of n rows of which the first k lack the value of the first column;
\* clustering looks only at the numbers of numeric columns, rows and complete
\* rows
ClusterTables ==
    {[labels |-> labels,
      dtypes |-> [j \in 1..2 |-> ColDtype(labels[j])],
      rows |-> [i \in 1..n |->
                  <<IF i <= k THEN Null
                    ELSE IF labels[1] = "flag" THEN Str("Yes") ELSE Num(1),
                    Num(1)>>]] :
        labels \in {<<"qty", "units">>, <<"flag", "units">>},
        n \in 1..MaxClusterRows, k \in 0..MaxClusterRows}

\* _identify_patterns on its own: the fifth entry of analyze_data
InitCluster ==
    /\ pc = FacetKeys[5]
    /\ df \in {t \in ClusterTables : CountNull(Column(t, 1)) < NRows(t)}
    /\ cleaned_df = NoTable /\ cleaning_report = NoReport
    /\ rule_input = NoTable /\ alias = FALSE /\ second_report = Idle
    /\ analysis_results = EmptyMap /\ facet_raised = {} /\ http_results = EmptyMap
    /\ message = <<>> /\ query_info = Idle
    /\ NoChat /\ NoPipeline

NextCluster == FacetPatterns

SpecCluster == InitCluster /\ [][NextCluster]_vars

-----------------------------------------------------------------------------
(* analyze_data: the result's keys, placeholders and numeric leaves *)

KeySet == {FacetKeys[i] : i \in 1..Len(FacetKeys)}

Returned == pc \in {"analyzed", "responded"}

\* what the facet function of key k returns for df when it raised exactly if
\* facet_raised says so
ValueOf(k, lstsq) ==
    CASE k = "basic_stats" -> _get_basic_statistics(df, "basic_stats" \in facet_raised)
      [] k = "trends" -> _detect_trends(df, "trends" \in facet_raised, lstsq)
      [] k = "correlations" -> _analyze_correlations(df, "correlations" \in facet_raised)
      [] k = "anomalies" -> _detect_anomalies(df, "anomalies" \in facet_raised)
      [] k = "patterns" -> _identify_patterns(df, "clusters" \in facet_raised,
                                              "distributions" \in facet_raised)
      [] k = "segments" -> _perform_segmentation
      [] k = "forecasts" -> _generate_forecasts

\* C7: the call never fails, its result has exactly the seven keys, and the
\* value under each key is the one its facet computes from the table and its
\* own failure alone, whichever other facets failed or had degenerate input
C7_SevenKeysAlways ==
    /\ pc # "analyze_failed"
    /\ Returned =>
          /\ DOMAIN analysis_results = KeySet
          /\ \E lstsq \in LstsqOutcomes : \A k \in KeySet :
                analysis_results[k] = _convert_numpy_to_python(ValueOf(k, lstsq))

\* a call returned although one facet raised and another had degenerate input
C7_Witness ==
    /\ pc = "analyzed"
    /\ "anomalies" \in facet_raised
    /\ Cardinality(NumericCols(df)) < 2
    /\ "message" \in DOMAIN analysis_results["correlations"].v

\* the facets (patterns by its parts) whose computation raised or whose input
\* holds nothing to compute from
NotComputed ==
    facet_raised
        \cup (IF DataCols(df) = {} THEN {"basic_stats", "distributions"} ELSE {})
        \cup (IF Cardinality(NumericCols(df)) < 2 THEN {"correlations", "clusters"} ELSE {})

StoredUnder(name) ==
    IF name \in {"clusters", "distributions"}
    THEN analysis_results["patterns"].v[name]
    ELSE analysis_results[name]

IsPlaceholder(value) ==
    /\ value.t = "dict"
    /\ DOMAIN value.v = {"message"}
    /\ value.v["message"].t = "str"

\* C8 (as claimed): a facet that raised or had degenerate input holds a
\* placeholder message in the returned result, never an empty mapping
C8_PlaceholderWhenNotComputed ==
    pc = "analyzed" => \A name \in NotComputed : IsPlaceholder(StoredUnder(name))

\* C9 (as claimed): the result analyze_data returns holds no NaN leaf
C9_NoNaNReturned ==
    pc = "analyzed" => ~ContainsNaN(Dict(analysis_results))

-----------------------------------------------------------------------------
(* ConversationalAgent.parse_query *)

\* A message is its sequence of words: runs of word characters separated by
\* single blanks, so that \b(w1|w2|...)\b finds a match exactly when one word
\* of the message is one of the alternatives.

QueryTypes ==
    <<"trend", "correlation", "anomaly", "summary", "comparison", "forecast",
      "distribution", "top", "bottom">>

query_patterns(ty) ==
    CASE ty = "trend" -> {"trend", "trends", "pattern", "patterns", "increase",
                          "decrease", "growing", "declining"}
      [] ty = "correlation" -> {"correlation", "correlate", "relationship",
                                "related", "connection"}
      [] ty = "anomaly" -> {"anomaly", "anomalies", "outlier", "outliers",
                            "unusual", "strange", "odd"}
      [] ty = "summary" -> {"summary", "summarize", "overview", "total",
                            "average", "mean", "median"}
      [] ty = "comparison" -> {"compare", "comparison", "versus", "vs",
                               "difference", "different"}
      [] ty = "forecast" -> {"forecast", "predict", "prediction", "future",
                             "next", "upcoming"}
      [] ty = "distribution" -> {"distribution", "spread", "range", "histogram",
                                 "frequency"}
      [] ty = "top" -> {"top", "best", "highest", "maximum", "peak", "leading"}
      [] ty = "bottom" -> {"bottom", "worst", "lowest", "minimum", "least", "poor"}

\* re.search(pattern, text)
Search(ty, words) == \E i \in 1..Len(words) : words[i] \in query_patterns(ty)

LowerWords(words) == [i \in 1..Len(words) |-> Lower(words[i])]

RECURSIVE Filter(_, _)
Filter(q, S) ==
    IF q = <<>> THEN <<>>
    ELSE IF Head(q) \in S THEN <<Head(q)>> \o Filter(Tail(q), S)
    ELSE Filter(Tail(q), S)

\* variant: the patterns are tried on the text as typed
DetectedTypesAsTyped(msg) ==
    Filter(QueryTypes, {ty \in {QueryTypes[i] : i \in 1..Len(QueryTypes)} : Search(ty, msg)})

\* the loop of lines 104-107
DetectedTypes(msg) ==
    Filter(QueryTypes, {ty \in {QueryTypes[i] : i \in 1..Len(QueryTypes)} :
                            Search(ty, LowerWords(msg))})

\* the words of the modelled vocabulary that \d+(?:\.\d+)? matches, with
\* their float value
NumberWords == {"3", "2.5"}
NumberOf(w) == CASE w = "3" -> Float(3, 1) [] w = "2.5" -> Float(5, 2)
\* int() of the digits (\d+) that end the word
PeriodCount(w) == CASE w = "3" -> 3 [] w = "2.5" -> 5

TimePeriods == <<"days", "weeks", "months", "years">>
PeriodWords(period) ==
    CASE period = "days" -> {"day", "days"}
      [] period = "weeks" -> {"week", "weeks"}
      [] period = "months" -> {"month", "months"}
      [] period = "years" -> {"year", "years"}

\* positions where \b(\d+)\s*<period>s?\b matches
PeriodAt(words, period) ==
    {i \in 1..(Len(words) - 1) :
        words[i] \in NumberWords /\ words[i + 1] \in PeriodWords(period)}

RECURSIVE PutPeriods(_, _, _)
PutPeriods(parameters, words, k) ==
    IF k > Len(TimePeriods) THEN parameters
    ELSE LET at == PeriodAt(words, TimePeriods[k])
         IN  PutPeriods(
                 IF at = {} THEN parameters
                 ELSE MapPut(parameters, TimePeriods[k],
                             PeriodCount(words[CHOOSE i \in at : \A o \in at : i <= o])),
                 words, k + 1)

\* variant: no time period is looked for
ExtractParametersNoPeriods(words) ==
    LET potential_columns ==
            Filter(words, {words[i] : i \in 1..Len(words)} \ NumberWords)
        numbers == Filter(words, NumberWords)
        p1 == IF potential_columns = <<>> THEN EmptyMap
              ELSE MapPut(EmptyMap, "columns",
                          SubSeq(potential_columns, 1, Min(5, Len(potential_columns))))
    IN  IF numbers = <<>> THEN p1
        ELSE MapPut(p1, "numbers", [i \in 1..Len(numbers) |-> NumberOf(numbers[i])])

_extract_parameters(words) ==
    LET potential_columns ==
            Filter(words, {words[i] : i \in 1..Len(words)} \ NumberWords)
        numbers == Filter(words, NumberWords)
        p1 == IF potential_columns = <<>> THEN EmptyMap
              ELSE MapPut(EmptyMap, "columns",
                          SubSeq(potential_columns, 1, Min(5, Len(potential_columns))))
        p2 == IF numbers = <<>> THEN p1
              ELSE MapPut(p1, "numbers", [i \in 1..Len(numbers) |-> NumberOf(numbers[i])])
    IN  PutPeriods(p2, words, 1)

\* variant: no default for a type outside the map
SuggestVisualizationsNoDefault(query_type) ==
    CASE query_type = "trend" -> <<"line_chart", "area_chart">>
      [] query_type = "correlation" -> <<"scatter_plot", "heatmap">>
      [] query_type = "anomaly" -> <<"scatter_plot", "box_plot">>
      [] query_type = "summary" -> <<"bar_chart", "pie_chart">>
      [] query_type = "comparison" -> <<"bar_chart", "grouped_bar_chart">>
      [] query_type = "forecast" -> <<"line_chart", "area_chart">>
      [] query_type = "distribution" -> <<"histogram", "box_plot">>
      [] query_type = "top" -> <<"bar_chart", "horizontal_bar_chart">>
      [] query_type = "bottom" -> <<"bar_chart", "horizontal_bar_chart">>
      [] query_type = "general" -> <<"summary_table", "basic_charts">>
      [] OTHER -> <<>>

_suggest_visualizations(query_type) ==
    CASE query_type = "trend" -> <<"line_chart", "area_chart">>
      [] query_type = "correlation" -> <<"scatter_plot", "heatmap">>
      [] query_type = "anomaly" -> <<"scatter_plot", "box_plot">>
      [] query_type = "summary" -> <<"bar_chart", "pie_chart">>
      [] query_type = "comparison" -> <<"bar_chart", "grouped_bar_chart">>
      [] query_type = "forecast" -> <<"line_chart", "area_chart">>
      [] query_type = "distribution" -> <<"histogram", "box_plot">>
      [] query_type = "top" -> <<"bar_chart", "horizontal_bar_chart">>
      [] query_type = "bottom" -> <<"bar_chart", "horizontal_bar_chart">>
      [] query_type = "general" -> <<"summary_table", "basic_charts">>
      [] OTHER -> <<"summary_table">>

\* x + y on IEEE doubles, by the shortest decimal that prints each double
FloatAdd(x, y) ==
    CASE x = "0.5" /\ y = "0.2" -> "0.7"
      [] x = "0.5" /\ y = "0.1" -> "0.6"
      [] x = "0.6" /\ y = "0.1" -> "0.7"
      [] x = "0.7" /\ y = "0.1" -> "0.7999999999999999"
      [] x = "0.7999999999999999" /\ y = "0.1" -> "0.8999999999999999"
      [] x = "0.5" /\ y = "-0.1" -> "0.4"
      [] x = "0.6" /\ y = "-0.1" -> "0.5"
      [] x = "0.7" /\ y = "-0.1" -> "0.6"
      [] x = "0.7999999999999999" /\ y = "-0.1" -> "0.7"
      [] x = "0.8999999999999999" /\ y = "-0.1" -> "0.7999999999999999"

\* variant: several matching intents cost nothing
CalculateConfidenceNoPenalty(info) ==
    LET c0 == "0.5"
        c1 == IF info["type"] # "general" THEN FloatAdd(c0, "0.2") ELSE c0
        c2 == IF info["parameters"] # EmptyMap THEN FloatAdd(c1, "0.1") ELSE c1
    IN  IF info["visualizations"] # <<>> THEN FloatAdd(c2, "0.1") ELSE c2

\* every double FloatAdd yields lies in [0, 1], where min(1.0, max(0.0, x)) is x
_calculate_confidence(info) ==
    LET c0 == "0.5"
        c1 == IF info["type"] # "general" THEN FloatAdd(c0, "0.2") ELSE c0
        c2 == IF info["parameters"] # EmptyMap THEN FloatAdd(c1, "0.1") ELSE c1
        c3 == IF info["visualizations"] # <<>> THEN FloatAdd(c2, "0.1") ELSE c2
        c4 == IF "sub_types" \in DOMAIN info /\ Len(info["sub_types"]) > 1
              THEN FloatAdd(c3, "-0.1") ELSE c3
    IN  c4

\* the mapping parse_query returns for a message
ParsedQuery(msg) ==
    LET message_lower == LowerWords(msg)
        q0 == [original_message |-> msg, type |-> "general",
               parameters |-> EmptyMap, visualizations |-> <<>>,
               confidence |-> "0.0"]
        detected_types == DetectedTypes(msg)
        q1 == IF detected_types = <<>> THEN q0
              ELSE IF Len(detected_types) = 1
              THEN [q0 EXCEPT !["type"] = detected_types[1]]
              ELSE MapPut([q0 EXCEPT !["type"] = "complex"],
                          "sub_types", detected_types)
        q2 == [q1 EXCEPT !["parameters"] = _extract_parameters(message_lower)]
        q3 == [q2 EXCEPT !["visualizations"] = _suggest_visualizations(q2["type"])]
    IN  [q3 EXCEPT !["confidence"] = _calculate_confidence(q3)]

parse_query ==
    /\ pc = "parse_query"
    /\ query_info' = ParsedQuery(message)
    /\ pc' = "parsed"
    /\ UNCHANGED <<chat_vars, pipeline_vars,
                   df, cleaned_df, cleaning_report, rule_input, alias, second_report,
                   analysis_results, facet_raised, http_results, message>>

-----------------------------------------------------------------------------
(* ConversationalAgent._generate_response and the per-intent generators *)

\* the text before the first placeholder of each template
response_templates(ty) ==
    CASE ty = "trend" -> "I found"
      [] ty = "correlation" -> "I identified"
      [] ty = "anomaly" -> "I detected"
      [] ty = "summary" -> "Here's a summary of your data:"
      [] ty = "comparison" -> "Comparing the data shows:"
      [] ty = "forecast" -> "Based on the trends, I predict:"
      [] ty = "distribution" -> "The distribution analysis shows:"
      [] ty = "top" -> "The top performers are:"
      [] ty = "bottom" -> "The areas needing attention are:"

\* A response: its fixed text (up to the first inserted value), the count it
\* inserts and the details it joins.
Reply(text, count, details) == [text |-> text, count |-> count, details |-> details]

\* f"{x:.<places>f}": the value in units of 10^-places, rounded; 'nan' for a
\* NaN; a value that is no number raises
Format(x, places) ==
    IF x.t = "int" THEN [t |-> "fixed", v |-> x.v * places]
    ELSE IF x.t # "float" THEN Raised
    ELSE IF x.v.nan THEN [t |-> "fixed", v |-> "nan"]
    ELSE [t |-> "fixed", v |-> (2 * x.v.n * places + x.v.d) \div (2 * x.v.d)]

\* bool(x) of a JSON value
Truthy(x) ==
    CASE x.t = "dict" -> DOMAIN x.v # {}
      [] x.t = "list" -> x.v # <<>>
      [] x.t = "none" -> FALSE
      [] OTHER -> TRUE

\* the values under a key of each entry of a map, Raised as soon as an entry
\* is no map or lacks the key
Has(entry, keys) == entry.t = "dict" /\ keys \subseteq DOMAIN entry.v

_generate_trend_response(ctx) ==
    IF Truthy(ctx) /\ "trends" \in DOMAIN ctx.v
    THEN LET trends == ctx.v["trends"]
         IN  IF trends.t \in {"none", "int", "float"} THEN Raised
             ELSE IF ~Truthy(trends)
             THEN Reply("I can help you identify trends in your data.", 0, <<>>)
             ELSE IF trends.t # "dict" THEN Raised
             ELSE IF \E col \in DOMAIN trends.v :
                        \/ ~Has(trends.v[col], {"direction", "strength"})
                        \/ Format(trends.v[col].v["strength"], 1000).t = "raise"
             THEN Raised
             ELSE Reply("I found", Cardinality(DOMAIN trends.v),
                        [col \in DOMAIN trends.v |->
                            [direction |-> trends.v[col].v["direction"],
                             strength |-> Format(trends.v[col].v["strength"], 1000)]])
    ELSE Reply("I can help you identify trends in your data.", 0, <<>>)

_generate_correlation_response(ctx) ==
    LET upload == Reply("I can analyze correlations between variables in your data.",
                        0, <<>>)
    IN  IF Truthy(ctx) /\ "correlations" \in DOMAIN ctx.v
        THEN LET correlations == ctx.v["correlations"]
             IN  IF correlations.t \in {"none", "int", "float"} THEN Raised
                 ELSE IF correlations.t # "dict" THEN upload
                 ELSE IF "strong_correlations" \notin DOMAIN correlations.v THEN upload
                 ELSE LET strong_corrs == correlations.v["strong_correlations"]
                      IN  IF strong_corrs.t \in {"none", "int", "float"} THEN Raised
                          ELSE IF ~Truthy(strong_corrs) THEN upload
                          ELSE IF strong_corrs.t # "list" THEN Raised
                          ELSE LET shown == SubSeq(strong_corrs.v, 1,
                                                   Min(3, Len(strong_corrs.v)))
                               IN  IF \E i \in 1..Len(shown) :
                                        \/ ~Has(shown[i], {"variable1", "variable2",
                                                            "correlation"})
                                        \/ Format(shown[i].v["correlation"], 1000).t = "raise"
                                   THEN Raised
                                   ELSE Reply("I identified", Len(strong_corrs.v),
                                          [i \in 1..Len(shown) |->
                                              [variable1 |-> shown[i].v["variable1"],
                                               variable2 |-> shown[i].v["variable2"],
                                               correlation |->
                                                   Format(shown[i].v["correlation"], 1000)]])
        ELSE upload

_generate_anomaly_response(ctx) ==
    IF Truthy(ctx) /\ "anomalies" \in DOMAIN ctx.v
    THEN LET anomalies == ctx.v["anomalies"]
         IN  IF anomalies.t \in {"none", "int", "float"} THEN Raised
             ELSE IF ~Truthy(anomalies)
             THEN Reply("I can detect anomalies and outliers in your data.", 0, <<>>)
             ELSE IF anomalies.t # "dict" THEN Raised
             ELSE IF \E col \in DOMAIN anomalies.v :
                        \/ ~Has(anomalies.v[col], {"count", "percentage"})
                        \/ Format(anomalies.v[col].v["percentage"], 10).t = "raise"
             THEN Raised
             ELSE Reply("I detected", Cardinality(DOMAIN anomalies.v),
                        [col \in DOMAIN anomalies.v |->
                            [count |-> anomalies.v[col].v["count"],
                             percentage |-> Format(anomalies.v[col].v["percentage"], 10)]])
    ELSE Reply("I can detect anomalies and outliers in your data.", 0, <<>>)

\* summary.get(key, 0)
_generate_summary_response(ctx) ==
    IF Truthy(ctx) /\ "data_summary" \in DOMAIN ctx.v
    THEN LET summary == ctx.v["data_summary"]
             Get(key) == IF key \in DOMAIN summary.v THEN summary.v[key] ELSE IntV(0)
         IN  IF summary.t # "dict" THEN Raised
             ELSE Reply("Your dataset contains", 0,
                        [rows |-> Get("total_rows"), cols |-> Get("total_columns")])
    ELSE Reply("I can provide a comprehensive summary of your data.", 0, <<>>)

_generate_general_response ==
    Reply("I'm here to help you analyze your data!", 0, <<>>)

\* the if/elif chain of lines 214-229 and the except of lines 231-233
_generate_response(parsed_query, ctx) ==
    LET query_type == parsed_query["type"]
        reply ==
            CASE query_type = "trend" -> _generate_trend_response(ctx)
              [] query_type = "correlation" -> _generate_correlation_response(ctx)
              [] query_type = "anomaly" -> _generate_anomaly_response(ctx)
              [] query_type = "summary" -> _generate_summary_response(ctx)
              [] query_type = "comparison" ->
                    Reply("I can help you compare different aspects of your data.", 0, <<>>)
              [] query_type = "top" ->
                    Reply("I can identify the top performers in your data.", 0, <<>>)
              [] query_type = "bottom" ->
                    Reply("I can identify areas that need attention in your data.", 0, <<>>)
              [] OTHER -> _generate_general_response
    IN  IF "t" \in DOMAIN reply
        THEN Reply("I understand you're asking about your data.", 0, <<>>)
        ELSE reply

generate_response ==
    /\ pc = "parsed"
    /\ response' = _generate_response(query_info, context)
    /\ pc' = "answered"
    /\ UNCHANGED <<df, cleaned_df, cleaning_report, rule_input, alias, second_report,
                   analysis_results, facet_raised, http_results, message,
                   query_info, context, sessions, session_id, history, processed,
                   pipeline_vars>>

-----------------------------------------------------------------------------
(* AnalysisService.generate_insights, create_charts_data and its six parts *)

MaxChartFaults == 1

\* the indexes, in column order, of the columns that pass the test
ColumnsWhere(t, Test(_)) ==
    LET F[j \in 0..NCols(t)] ==
            IF j = 0 THEN <<>>
            ELSE IF Test(j) THEN Append(F[j - 1], j) ELSE F[j - 1]
    IN  F[NCols(t)]

\* Series.tolist() of a numeric column: a missing value is a NaN
ToList(col) ==
    List([i \in 1..Len(col) |-> IF IsNull(col[i]) THEN NaN ELSE Float(col[i].n, 1)])

HasMatrix(results) ==
    /\ "correlations" \in DOMAIN results
    /\ "correlation_matrix" \in DOMAIN results["correlations"].v

\* the insights by type and subject; titles, descriptions and severities are
\* not modelled.  No step of the body raises on a result of analyze_data for
\* the same table, so the except of lines 379-381 is not reached.
generate_insights(t, results) ==
    LET Of(kind, key) ==
            IF key \notin DOMAIN results THEN <<>>
            ELSE LET cols == ColumnsWhere(t, LAMBDA j : t.labels[j] \in DOMAIN results[key].v)
                 IN  [i \in 1..Len(cols) |-> [type |-> kind, about |-> t.labels[cols[i]]]]
        missing_data == \E i \in 1..NRows(t), j \in ColIdx(t) : IsNull(t.rows[i][j])
        strong_corrs ==
            IF "correlations" \in DOMAIN results
               /\ "strong_correlations" \in DOMAIN results["correlations"].v
            THEN results["correlations"].v["strong_correlations"].v
            ELSE <<>>
    IN  <<[type |-> "data_overview", about |-> ""]>>
        \o (IF missing_data THEN <<[type |-> "data_quality", about |-> ""]>> ELSE <<>>)
        \o Of("trend", "trends")
        \o Of("anomaly", "anomalies")
        \o (IF strong_corrs # <<>>
            THEN <<[type |-> "correlation",
                    about |-> HighestCorrelation(strong_corrs).v["variable1"].v]>>
            ELSE <<>>)

\* raises, here and below: an exception escaped the try block
_create_summary_chart(t, raises) ==
    IF raises THEN EmptyDict
    ELSE IF NumericCols(t) = {}
    THEN Dict([error |-> Txt("No numeric columns for summary chart")])
    ELSE LET cols == ColumnsWhere(t, LAMBDA j : j \in DataCols(t))
         IN  Dict([type |-> Txt("summary_stats"),
                   data |-> List([i \in 1..Len(cols) |->
                       LET stats == ColumnStats(Column(t, cols[i])).v
                       IN  Dict([column |-> Txt(t.labels[cols[i]]),
                                 mean |-> stats["mean"],
                                 median |-> stats["median"],
                                 std |-> stats["std"]])])])

\* df[col] raises for a key of the trends map that is no column
_create_trend_charts(t, results, raises) ==
    IF raises THEN List(<<>>)
    ELSE IF "trends" \notin DOMAIN results THEN List(<<>>)
    ELSE IF results["trends"].t # "dict" THEN List(<<>>)
    ELSE IF \E key \in DOMAIN results["trends"].v : key \notin LabelsOf(t, ColIdx(t))
    THEN List(<<>>)
    ELSE LET cols == ColumnsWhere(t, LAMBDA j : t.labels[j] \in DOMAIN results["trends"].v)
         IN  List([i \in 1..Len(cols) |->
                Dict([type |-> Txt("line"),
                      title |-> Txt(t.labels[cols[i]]),
                      data |-> Dict([x |-> List([k \in 1..NRows(t) |-> IntV(k - 1)]),
                                     y |-> ToList(Column(t, cols[i])),
                                     trend |-> results["trends"].v[t.labels[cols[i]]]])])])

_create_correlation_chart(results, raises) ==
    IF raises THEN EmptyDict
    ELSE IF HasMatrix(results)
    THEN Dict([type |-> Txt("heatmap"), title |-> Txt("Correlation Matrix"),
               data |-> results["correlations"].v["correlation_matrix"]])
    ELSE Dict([error |-> Txt("No correlation data available")])

_create_distribution_charts(t, raises) ==
    IF raises THEN List(<<>>)
    ELSE LET cols == ColumnsWhere(t, LAMBDA j : j \in DataCols(t))
         IN  List([i \in 1..Len(cols) |->
                Dict([type |-> Txt("histogram"),
                      title |-> Txt(t.labels[cols[i]]),
                      data |-> Dict([values |-> ToList(DropNa(Column(t, cols[i]))),
                                     column |-> Txt(t.labels[cols[i]])])])])

_create_anomaly_charts(t, results, raises) ==
    IF raises THEN List(<<>>)
    ELSE IF "anomalies" \notin DOMAIN results THEN List(<<>>)
    ELSE IF results["anomalies"].t # "dict" THEN List(<<>>)
    ELSE IF \E key \in DOMAIN results["anomalies"].v : key \notin LabelsOf(t, ColIdx(t))
    THEN List(<<>>)
    ELSE LET cols == ColumnsWhere(t, LAMBDA j :
                        /\ t.labels[j] \in DOMAIN results["anomalies"].v
                        /\ Len(DropNa(Column(t, j))) > 0)
         IN  List([i \in 1..Len(cols) |->
                LET anomaly_info == results["anomalies"].v[t.labels[cols[i]]].v
                IN  Dict([type |-> Txt("scatter"),
                          title |-> Txt(t.labels[cols[i]]),
                          data |-> Dict([values |-> ToList(DropNa(Column(t, cols[i]))),
                                         anomalies |-> anomaly_info["outlier_values"],
                                         bounds |-> anomaly_info["bounds"]])])])

_create_pattern_charts(t, results, raises) ==
    IF raises THEN List(<<>>)
    ELSE LET numeric_cols == ColumnsWhere(t, LAMBDA j : j \in NumericCols(t))
             scatter ==
                IF Len(numeric_cols) >= 2
                THEN <<Dict([type |-> Txt("scatter"),
                             data |-> Dict([x |-> ToList(Column(t, numeric_cols[1])),
                                            y |-> ToList(Column(t, numeric_cols[2])),
                                            x_label |-> Txt(t.labels[numeric_cols[1]]),
                                            y_label |-> Txt(t.labels[numeric_cols[2]])])])>>
                ELSE <<>>
             heatmap ==
                IF HasMatrix(results)
                THEN <<Dict([type |-> Txt("correlation_heatmap"),
                             title |-> Txt("Correlation Matrix"),
                             data |-> results["correlations"].v["correlation_matrix"]])>>
                ELSE <<>>
         IN  List(scatter \o heatmap)

ChartKeys ==
    {"summary", "trends", "correlations", "distributions", "anomalies", "patterns"}

\* faults: the entries whose derivation raises.  The parts return no None
\* and catch their own exceptions, so the filter of line 410 keeps every
\* entry and the except of lines 415-417 is not reached.
create_charts_data(t, results, faults) ==
    _convert_numpy_to_python(Dict(
        [key \in ChartKeys |->
            CASE key = "summary" -> _create_summary_chart(t, key \in faults)
              [] key = "trends" -> _create_trend_charts(t, results, key \in faults)
              [] key = "correlations" -> _create_correlation_chart(results, key \in faults)
              [] key = "distributions" -> _create_distribution_charts(t, key \in faults)
              [] key = "anomalies" -> _create_anomaly_charts(t, results, key \in faults)
              [] key = "patterns" -> _create_pattern_charts(t, results, key \in faults)])).v

-----------------------------------------------------------------------------
(* routes/data.py: analyze_data and generate_insights, up to the charts *)

MaxPipelineRows == 2

\* clean_data in one step: the six rules applied in turn, then lines 52-61
clean_data(t, strict) ==
    LET r1 == _handle_missing_values(t)
        r2 == _handle_duplicates(r1.df)
        r3 == _handle_outliers(r2.df)
        r4 == _fix_data_types(r3.df, strict)
        r5 == _handle_inconsistent_values(r4.df)
        r6 == _fix_formatting(r5.df)
        res == <<r1, r2, r3, r4, r5, r6>>
        steps == [i \in 1..6 |-> StepEntry(cleaning_rules[i], res[i])]
    IN  [df |-> r6.df,
         report |-> [original_shape |-> Shape(t),
                     cleaning_steps |-> steps,
                     issues_found |-> <<>>,
                     improvements |-> <<>>,
                     final_shape |-> Shape(r6.df),
                     rows_removed |-> NRows(t) - NRows(r6.df),
                     columns_removed |-> NCols(t) - NCols(r6.df),
                     summary |-> _generate_cleaning_summary(steps, r6.df.labels)]]

\* analyze_data in one step; faults are the facets whose try block is left
\* by an exception
analyze_data(t, faults, lstsq) ==
    _convert_numpy_to_python(Dict(
        [basic_stats |-> _get_basic_statistics(t, "basic_stats" \in faults),
         trends |-> _detect_trends(t, "trends" \in faults, lstsq),
         correlations |-> _analyze_correlations(t, "correlations" \in faults),
         anomalies |-> _detect_anomalies(t, "anomalies" \in faults),
         patterns |-> _identify_patterns(t, "clusters" \in faults,
                                         "distributions" \in faults),
         segments |-> _perform_segmentation,
         forecasts |-> _generate_forecasts])).v

-----------------------------------------------------------------------------
(* NLGService *)

\* A sentence is kept as its f-string with the values that fill it: the
\* columns it names and the number it prints.
Sentence(template, subject, value) ==
    [t |-> "sentence", v |-> [template |-> template, subject |-> subject, value |-> value]]

\* dict.get(key, default)
Get(m, key, default) == IF key \in DOMAIN m THEN m[key] ELSE default

\* the keys of a result in the order of the table's columns
InOrder(t, keys) == SelectSeq(t.labels, LAMBDA lbl : lbl \in keys)

\* (std / abs(mean)) ^ 2 as a fraction in lowest terms, for std = sqrt(n / d)
CvSquared(std, mean) ==
    LET a == Abs(mean.v.n)
        k1 == Gcd(std.v.n, a)
        k2 == Gcd(std.v.n \div k1, a)
    IN  [num |-> ((std.v.n \div k1) \div k2) * mean.v.d * mean.v.d,
         den |-> std.v.d * (a \div k1) * (a \div k2)]

\* skew ^ 2 as a fraction
SkewSquared(skew) ==
    IF skew.v.form = "skew" THEN [num |-> Abs(skew.v.n), den |-> skew.v.d]
    ELSE [num |-> skew.v.n * skew.v.n, den |-> skew.v.d * skew.v.d]

IsNumber(x) == x.t \in {"float", "int"}

HighVariance ==
    "The {column} shows high variability with a standard deviation of {std:.2f}, indicating diverse values across your dataset."
LowVariance ==
    "The {column} shows low variability with a standard deviation of {std:.2f}, suggesting consistent values."
Skewed ==
    "The {column} is {direction} with a skewness of {skew:.2f}, indicating an asymmetric distribution."
Normal ==
    "The {column} follows a relatively normal distribution with a skewness of {skew:.2f}."

\* variant: the skewness is looked at first
StatisticsInsightSkewFirst(column, stats) ==
    LET std == Get(stats, "std", IntV(0))
        skew == Get(stats, "skewness", IntV(0))
        mean_val == Get(stats, "mean", IntV(0))
        s2 == SkewSquared(skew)
        cv2 == CvSquared(std, mean_val)
    IN  IF ~IsNaN(skew) /\ s2.num > s2.den
        THEN Sentence(Skewed, <<column>>, skew)
        ELSE IF ~IsNaN(skew) /\ 4 * s2.num < s2.den
        THEN Sentence(Normal, <<column>>, skew)
        ELSE IF ~IsNaN(std) /\ std.v.n > 0 /\ mean_val.v.n # 0 /\ 4 * cv2.num > cv2.den
        THEN Sentence(HighVariance, <<column>>, std)
        ELSE IF ~IsNaN(std) /\ std.v.n > 0 /\ (mean_val.v.n = 0 \/ 100 * cv2.num < cv2.den)
        THEN Sentence(LowVariance, <<column>>, std)
        ELSE None

\* A comparison with NaN is False; cv is 0 for a zero mean.  A value that is
\* no number raises inside the try and the function returns None.
_generate_statistics_insight(column, stats) ==
    LET std == Get(stats, "std", IntV(0))
        skew == Get(stats, "skewness", IntV(0))
        mean_val == Get(stats, "mean", IntV(0))
        s2 == SkewSquared(skew)
        cv2 == CvSquared(std, mean_val)
    IN  IF ~IsNumber(std) \/ ~IsNumber(skew) \/ ~IsNumber(mean_val) THEN None
        ELSE IF ~IsNaN(std) /\ std.v.n > 0 /\ ~IsNaN(mean_val)
                /\ mean_val.v.n # 0 /\ 4 * cv2.num > cv2.den
        THEN Sentence(HighVariance, <<column>>, std)
        ELSE IF ~IsNaN(std) /\ std.v.n > 0 /\ ~IsNaN(mean_val)
                /\ (mean_val.v.n = 0 \/ 100 * cv2.num < cv2.den)
        THEN Sentence(LowVariance, <<column>>, std)
        ELSE IF ~IsNaN(skew) /\ s2.num > s2.den
        THEN Sentence(Skewed, <<column>>, skew)
        ELSE IF ~IsNaN(skew) /\ 4 * s2.num < s2.den
        THEN Sentence(Normal, <<column>>, skew)
        ELSE None

\* the slope of a fit is in cell units (SCALE to one)
_generate_trend_insight(column, trend_info) ==
    LET direction == Get(trend_info, "direction", Txt(""))
        slope == Get(trend_info, "slope", IntV(0))
        above(p, q) == ~IsNaN(slope) /\ q * Abs(slope.v.n) > p * SCALE * Abs(slope.v.d)
        strength == IF above(1, 2) THEN "strong" ELSE "moderate"
    IN  IF ~IsNumber(slope) THEN None
        ELSE IF above(1, 10)
        THEN IF direction.v = "increasing"
             THEN Sentence("There's a " \o strength
                               \o " upward trend in {column} with a slope of {slope:.3f}.",
                           <<column>>, slope)
             ELSE Sentence("There's a " \o strength
                               \o " downward trend in {column} with a slope of {slope:.3f}.",
                           <<column>>, slope)
        ELSE Sentence("The {column} shows a relatively stable pattern over time.",
                      <<column>>, slope)

_generate_correlation_insight(corr_info) ==
    LET var1 == Get(corr_info, "variable1", Txt(""))
        var2 == Get(corr_info, "variable2", Txt(""))
        corr == Get(corr_info, "correlation", IntV(0))
        sign == IF corr.v.n > 0 THEN "positive" ELSE "negative"
    IN  IF ~IsNumber(corr) THEN None
        ELSE IF AbsAbove(corr, 8)
        THEN Sentence("There's a very strong " \o sign
                          \o " correlation ({corr:.2f}) between {var1} and {var2}, "
                          \o (IF corr.v.n > 0 THEN "suggesting they move together."
                              ELSE "suggesting an inverse relationship."),
                      <<var1.v, var2.v>>, corr)
        ELSE IF AbsAbove(corr, 6)
        THEN Sentence("There's a strong " \o sign
                          \o " correlation ({corr:.2f}) between {var1} and {var2}.",
                      <<var1.v, var2.v>>, corr)
        ELSE Sentence("There's a moderate correlation ({corr:.2f}) between {var1} and {var2}.",
                      <<var1.v, var2.v>>, corr)

_generate_anomaly_insight(column, anomaly_info) ==
    LET percentage == Get(anomaly_info, "percentage", IntV(0))
        above(p) == ~IsNaN(percentage) /\ percentage.v.n > p * percentage.v.d
    IN  IF ~IsNumber(percentage) THEN None
        ELSE IF above(10)
        THEN Sentence("I detected {count} anomalies in {column}, representing {percentage:.1f}% of the data. These may need investigation.",
                      <<column>>, percentage)
        ELSE IF above(2)
        THEN Sentence("I found {count} potential outliers in {column} ({percentage:.1f}% of data) that may warrant attention.",
                      <<column>>, percentage)
        ELSE Sentence("The data in {column} appears relatively clean with only {count} potential outliers ({percentage:.1f}% of data).",
                      <<column>>, percentage)

_generate_cluster_insight(cluster_info) ==
    IF "message" \notin DOMAIN cluster_info
    THEN LET n_clusters == Get(cluster_info, "n_clusters", IntV(0))
         IN  IF n_clusters.v > 1
             THEN Sentence("The data shows {n_clusters} distinct clusters, suggesting natural groupings in your dataset.",
                           <<>>, Float(n_clusters.v, 1))
             ELSE Sentence("The clustering analysis suggests the data is relatively homogeneous without clear natural groupings.",
                           <<>>, Float(n_clusters.v, 1))
    ELSE Sentence(cluster_info["message"].v, <<>>, Float(0, 1))

\* the sentences of the entries of a mapping, those that are None left out
SentencesOf(t, m, Insight(_, _)) ==
    LET keys == InOrder(t, {k \in DOMAIN m : m[k].t = "dict"})
        all == [i \in 1..Len(keys) |-> Insight(keys[i], m[keys[i]].v)]
    IN  SelectSeq(all, LAMBDA x : x.t = "sentence")

StrongListOf(results) ==
    LET correlations == Get(results, "correlations", EmptyDict)
    IN  Get(correlations.v, "strong_correlations", List(<<>>)).v

_generate_detailed_insights(t, results) ==
    LET basic_stats == Get(results, "basic_stats", EmptyDict)
        trends == Get(results, "trends", EmptyDict)
        strong_correlations == StrongListOf(results)
        anomalies == Get(results, "anomalies", EmptyDict)
        patterns == Get(results, "patterns", EmptyDict)
        clusters == Get(patterns.v, "clusters", None)
        correlation_all == [i \in 1..Len(strong_correlations) |->
                               _generate_correlation_insight(strong_correlations[i].v)]
    IN  (IF "message" \notin DOMAIN basic_stats.v
         THEN SentencesOf(t, basic_stats.v, _generate_statistics_insight)
         ELSE <<>>)
        \o SentencesOf(t, trends.v, _generate_trend_insight)
        \o SelectSeq(correlation_all, LAMBDA x : x.t = "sentence")
        \o SentencesOf(t, anomalies.v, _generate_anomaly_insight)
        \o (IF Truthy(clusters) THEN <<_generate_cluster_insight(clusters.v)>> ELSE <<>>)

\* df.isnull().sum().sum() / (rows * columns) * 100 > p (False for 0 / 0)
MissingAbove(t, p) ==
    LET nulls == SeqSum([j \in 1..NCols(t) |-> CountNull(Column(t, j))])
    IN  nulls * 100 > p * NRows(t) * NCols(t)

\* df.duplicated() hashes the cells and raises on a list cell; the except
\* answers the fixed sentence
_generate_summary(t, results) ==
    LET trend_count == Cardinality(DOMAIN Get(results, "trends", EmptyDict).v)
        correlation_count == Len(StrongListOf(results))
        anomaly_count == Cardinality(DOMAIN Get(results, "anomalies", EmptyDict).v)
        duplicate_count == NRows(t) - Len(DropDuplicates(t.rows))
        part(text, n) == Sentence(text, <<>>, Float(n, 1))
    IN  IF \E j \in ColIdx(t) : Unhashable(Column(t, j))
        THEN <<part("I've analyzed your dataset and found several interesting patterns worth exploring.", 0)>>
        ELSE <<part("Your dataset contains {row_count:,} rows and {col_count} columns, with {numeric_count} numeric variables.",
                    NRows(t))>>
             \o (IF MissingAbove(t, 5)
                 THEN <<part("Data quality note: {missing_percentage:.1f}% of values are missing, which may affect analysis accuracy.", 0)>>
                 ELSE <<part("The data appears to be relatively complete with minimal missing values.", 0)>>)
             \o (IF duplicate_count > 0
                 THEN <<part("Found {duplicate_count} duplicate rows that have been handled in the analysis.",
                             duplicate_count)>>
                 ELSE <<>>)
             \o (IF trend_count > 0 \/ correlation_count > 0 \/ anomaly_count > 0
                 THEN <<part("Key findings include: {', '.join(findings)}.",
                             trend_count + correlation_count + anomaly_count)>>
                 ELSE <<>>)

Imputation ==
    "Consider data imputation strategies for missing values to improve analysis accuracy."
Investigate ==
    "Investigate the detected anomalies to understand their causes and potential impact."
Explore ==
    "Explore the strong correlations further to understand causal relationships."
Monitor ==
    "Monitor the identified trends to understand their implications for future planning."
Generic ==
    <<"Consider exploring specific aspects of your data with targeted questions.",
      "Use the interactive visualizations to gain deeper insights into your data patterns.">>

\* variant: the checks after the first that fired are skipped
RecommendationsFirstOnly(t, results) ==
    IF MissingAbove(t, 10) THEN <<Imputation>>
    ELSE IF DOMAIN Get(results, "anomalies", EmptyDict).v # {} THEN <<Investigate>>
    ELSE IF StrongListOf(results) # <<>> THEN <<Explore>>
    ELSE IF DOMAIN Get(results, "trends", EmptyDict).v # {} THEN <<Monitor>>
    ELSE Generic

nlg_generate_recommendations(t, results) ==
    LET recommendations ==
            (IF MissingAbove(t, 10) THEN <<Imputation>> ELSE <<>>)
            \o (IF DOMAIN Get(results, "anomalies", EmptyDict).v # {}
                THEN <<Investigate>> ELSE <<>>)
            \o (IF StrongListOf(results) # <<>> THEN <<Explore>> ELSE <<>>)
            \o (IF DOMAIN Get(results, "trends", EmptyDict).v # {}
                THEN <<Monitor>> ELSE <<>>)
    IN  IF recommendations = <<>> THEN Generic ELSE recommendations

nlg_suggest_visualizations(results) ==
    <<"summary_chart">>
    \o (IF Truthy(Get(results, "trends", None)) THEN <<"trend_chart">> ELSE <<>>)
    \o (IF StrongListOf(results) # <<>> THEN <<"correlation_heatmap">> ELSE <<>>)
    \o (IF Truthy(Get(results, "anomalies", None)) THEN <<"anomaly_chart">> ELSE <<>>)
    \o (IF Truthy(Get(Get(results, "patterns", EmptyDict).v, "distributions", None))
        THEN <<"distribution_chart">> ELSE <<>>)

\* `word in query_lower`: the word occurs somewhere in the lower-cased query
Occurs(word, query) ==
    \E i \in 1..Len(query) :
        \/ Lower(query[i]) = word
        \/ <<word, Lower(query[i])>> \in
              {<<"trend", "trending">>, <<"trend", "trends">>,
               <<"pattern", "patterns">>, <<"outlier", "outliers">>}

TrendWords == {"trend", "pattern", "increase", "decrease"}
CorrelationWords == {"correlation", "relationship", "connection"}
AnomalyWords == {"anomaly", "outlier", "unusual"}

\* variant: the next keyword set is tried when the facet is empty
QuerySpecificFallingThrough(user_query, results) ==
    LET trends == Get(results, "trends", EmptyDict).v
        strong_correlations == StrongListOf(results)
        anomalies == Get(results, "anomalies", EmptyDict).v
        AnyOf(words) == \E w \in words : Occurs(w, user_query)
    IN  IF AnyOf(TrendWords) /\ DOMAIN trends # {}
        THEN Sentence("Based on your question about trends, I found {trend_count} significant trend(s) in your data.",
                      <<>>, Float(Cardinality(DOMAIN trends), 1))
        ELSE IF AnyOf(CorrelationWords) /\ strong_correlations # <<>>
        THEN Sentence("Regarding correlations, I identified {len(strong_correlations)} strong correlation(s) in your data.",
                      <<>>, Float(Len(strong_correlations), 1))
        ELSE IF AnyOf(AnomalyWords) /\ DOMAIN anomalies # {}
        THEN Sentence("Concerning anomalies, I detected {total_anomalies} potential outliers across your dataset.",
                      <<>>, Float(MapSum([k \in DOMAIN anomalies |->
                                            Get(anomalies[k].v, "count", IntV(0)).v]), 1))
        ELSE None

_generate_query_specific_insights(user_query, results) ==
    LET trends == Get(results, "trends", EmptyDict).v
        strong_correlations == StrongListOf(results)
        anomalies == Get(results, "anomalies", EmptyDict).v
        AnyOf(words) == \E w \in words : Occurs(w, user_query)
    IN  IF AnyOf(TrendWords)
        THEN IF DOMAIN trends # {}
             THEN Sentence("Based on your question about trends, I found {trend_count} significant trend(s) in your data.",
                           <<>>, Float(Cardinality(DOMAIN trends), 1))
             ELSE None
        ELSE IF AnyOf(CorrelationWords)
        THEN IF strong_correlations # <<>>
             THEN Sentence("Regarding correlations, I identified {len(strong_correlations)} strong correlation(s) in your data.",
                           <<>>, Float(Len(strong_correlations), 1))
             ELSE None
        ELSE IF AnyOf(AnomalyWords)
        THEN IF DOMAIN anomalies # {}
             THEN Sentence("Concerning anomalies, I detected {total_anomalies} potential outliers across your dataset.",
                           <<>>, Float(MapSum([k \in DOMAIN anomalies |->
                                                 Get(anomalies[k].v, "count", IntV(0)).v]), 1))
             ELSE None
        ELSE None

\* NLGService.generate_insights; raises: an exception escaped one of the five
\* parts (each catches its own)
nlg_generate_insights(t, results, user_query, raises) ==
    IF raises
    THEN [summary |-> <<Sentence("I analyzed your data and found some interesting patterns.",
                                 <<>>, Float(0, 1))>>,
          detailed_insights |-> <<>>,
          recommendations |->
              <<"Consider exploring the data further with specific questions.">>,
          visualization_suggestions |-> <<"summary_chart">>,
          query_specific_insights |-> None,
          error |-> TRUE]
    ELSE [summary |-> _generate_summary(t, results),
          detailed_insights |-> _generate_detailed_insights(t, results),
          recommendations |-> nlg_generate_recommendations(t, results),
          visualization_suggestions |-> nlg_suggest_visualizations(results),
          query_specific_insights |->
              IF user_query # <<>>
              THEN _generate_query_specific_insights(user_query, results)
              ELSE None,
          error |-> FALSE]

\* the service's own try: the except of lines 389-395 answers when
\* NLGService.generate_insights itself raised, which its own try prevents
generate_natural_language_insights(t, results, user_query, raises) ==
    Dict(nlg_generate_insights(t, results, user_query, raises))

\* the uploaded files: tables with and without missing values, duplicate
\* rows and a date column
PipelineTables ==
    {t \in TablesOf(<<"qty", "units">>, MaxPipelineRows) : NRows(t) > 0}
        \cup {t \in TablesOf(<<"when", "qty">>, 2) :
                NRows(t) = 2 /\ \A i \in 1..2 : ~IsNull(t.rows[i][1])}

\* a stage that raised: the except of the route answers 500
Http500 ==
    /\ pc' = "http_500"
    /\ UNCHANGED <<df, cleaned_df, cleaning_report, analysis_results, facet_raised,
                   insights, charts_data, chart_raised>>

Called(stage, table, results, raised) ==
    calls' = Append(calls, [stage |-> stage, df |-> table, analysis_results |-> results,
                            raised |-> raised])

route_read_file ==
    /\ pc = "route_read"
    /\ \/ \E t \in PipelineTables :
            /\ df' = t
            /\ pc' = "route_clean"
            /\ UNCHANGED <<cleaned_df, cleaning_report, analysis_results, facet_raised,
                           insights, charts_data, chart_raised>>
       \/ Http500
    /\ UNCHANGED <<calls, route, rule_input, alias, second_report, http_results, message,
                   query_info, chat_vars>>

route_clean ==
    /\ pc = "route_clean"
    /\ \/ \E strict \in BOOLEAN :
            /\ cleaned_df' = clean_data(df, strict).df
            /\ cleaning_report' = clean_data(df, strict).report
            /\ Called("clean_data", df, EmptyMap, FALSE)
            /\ pc' = "route_analyze"
            /\ UNCHANGED <<df, analysis_results, facet_raised, insights, charts_data,
                           chart_raised>>
       \/ Called("clean_data", df, EmptyMap, TRUE) /\ Http500
    /\ UNCHANGED <<route, rule_input, alias, second_report, http_results, message,
                   query_info, chat_vars>>

RouteAnalyzeRaw ==
    /\ pc = "route_analyze"
    /\ \/ \E faults \in {F \in SUBSET {"basic_stats", "trends", "correlations",
                                       "anomalies", "clusters", "distributions"} :
                            Cardinality(F) <= 1},
             lstsq \in LstsqOutcomes :
            /\ analysis_results' = analyze_data(df, faults, lstsq)
            /\ facet_raised' = faults
            /\ Called("analyze_data", df, EmptyMap, FALSE)
            /\ pc' = "route_insights"
            /\ UNCHANGED <<df, cleaned_df, cleaning_report, insights, charts_data,
                           chart_raised>>
       \/ Called("analyze_data", df, EmptyMap, TRUE) /\ Http500
    /\ UNCHANGED <<route, rule_input, alias, second_report, http_results, message,
                   query_info, chat_vars>>

route_analyze ==
    /\ pc = "route_analyze"
    /\ \/ \E faults \in {F \in SUBSET {"basic_stats", "trends", "correlations",
                                       "anomalies", "clusters", "distributions"} :
                            Cardinality(F) <= 1},
             lstsq \in LstsqOutcomes :
            /\ analysis_results' = analyze_data(cleaned_df, faults, lstsq)
            /\ facet_raised' = faults
            /\ Called("analyze_data", cleaned_df, EmptyMap, FALSE)
            /\ pc' = "route_insights"
            /\ UNCHANGED <<df, cleaned_df, cleaning_report, insights, charts_data,
                           chart_raised>>
       \/ Called("analyze_data", cleaned_df, EmptyMap, TRUE) /\ Http500
    /\ UNCHANGED <<route, rule_input, alias, second_report, http_results, message,
                   query_info, chat_vars>>

\* generate_insights and generate_natural_language_insights catch their own
\* exceptions
route_insights ==
    /\ pc = "route_insights"
    /\ \/ /\ route = "analyze_data"
          /\ insights' = generate_insights(cleaned_df, analysis_results)
          /\ Called("generate_insights", cleaned_df, analysis_results, FALSE)
       \/ /\ route = "generate_insights"
          /\ \E user_query \in {<<>>, <<"trend">>}, raises \in BOOLEAN :
                insights' = generate_natural_language_insights(
                                cleaned_df, analysis_results, user_query, raises)
          /\ Called("generate_natural_language_insights", cleaned_df,
                    analysis_results, FALSE)
    /\ pc' = "route_charts"
    /\ UNCHANGED <<df, cleaned_df, cleaning_report, analysis_results, facet_raised,
                   charts_data, chart_raised, route, rule_input, alias, second_report,
                   http_results, message, query_info, chat_vars>>

route_charts ==
    /\ pc = "route_charts"
    /\ \E faults \in {F \in SUBSET ChartKeys : Cardinality(F) <= MaxChartFaults} :
            /\ charts_data' = create_charts_data(cleaned_df, analysis_results, faults)
            /\ chart_raised' = faults
    /\ Called("create_charts_data", cleaned_df, analysis_results, FALSE)
    /\ pc' = "route_convert"
    /\ UNCHANGED <<df, cleaned_df, cleaning_report, analysis_results, facet_raised,
                   insights, route, rule_input, alias, second_report, http_results,
                   message, query_info, chat_vars>>

InitPipeline ==
    /\ pc = "route_read"
    /\ df = NoTable /\ cleaned_df = NoTable /\ cleaning_report = NoReport
    /\ rule_input = NoTable /\ alias = FALSE /\ second_report = Idle
    /\ analysis_results = EmptyMap /\ facet_raised = {} /\ http_results = EmptyMap
    /\ message = <<>> /\ query_info = Idle
    /\ NoChat
    /\ route \in {"analyze_data", "generate_insights"}
    /\ calls = <<>> /\ insights = Idle /\ charts_data = EmptyMap /\ chart_raised = {}

NextPipeline ==
    route_read_file \/ route_clean \/ route_analyze \/ route_insights \/ route_charts

SpecPipeline == InitPipeline /\ [][NextPipeline]_vars

-----------------------------------------------------------------------------
(* NLGService.generate_insights on a table and its analysis *)

\* tables with dates, missing values and repeated rows, tables of two
\* complete numeric columns and tables of one column of close values; the
\* rows are in one order (by cell values)
NarrateTables ==
    LET Rank(r) == IF Len(r) = 3 THEN 6 * r[1].n + 2 * (r[2].n \div SCALE) + r[3].n \div SCALE
                   ELSE IF Len(r) = 2 THEN 2 * (r[1].n \div SCALE) + r[2].n \div SCALE
                   ELSE r[1].n
        Sorted(t) == \A i \in 1..(NRows(t) - 1) : Rank(t.rows[i]) <= Rank(t.rows[i + 1])
        dated == <<"when", "qty", "units">>
    IN  {t \in {[labels |-> dated,
                 dtypes |-> [j \in 1..3 |-> ColDtype(dated[j])],
                 rows |-> rows] :
                    rows \in SeqsUpTo({r \in RowsOf(dated) : ~IsNull(r[1])}, MaxNarrateRows)} :
            NRows(t) > 0 /\ Sorted(t)}
        \cup {t \in TablesOf(<<"score", "units">>, MaxNarrateRows) :
                NRows(t) > 0 /\ Sorted(t)}
        \cup {t \in TablesOf(<<"rate">>, MaxNarrateRows) : NRows(t) > 0 /\ Sorted(t)}

\* the user_query of the request, as words
NarrateQueries ==
    {<<>>, <<"sales">>, <<"Trend">>, <<"relationship">>, <<"unusual">>,
     <<"trending", "outliers">>, <<"connection", "anomaly">>}

\* the request's user_query travels in message
InitNarrate ==
    /\ pc = "narrate"
    /\ df \in NarrateTables
    /\ analysis_results \in {analyze_data(df, {}, lstsq) : lstsq \in LstsqOutcomes}
    /\ message \in NarrateQueries
    /\ cleaned_df = NoTable /\ cleaning_report = NoReport
    /\ rule_input = NoTable /\ alias = FALSE /\ second_report = Idle
    /\ facet_raised = {} /\ http_results = EmptyMap
    /\ query_info = Idle
    /\ NoChat /\ NoPipeline

\* each of the five parts catches its own exceptions
narrate ==
    /\ pc = "narrate"
    /\ insights' = generate_natural_language_insights(df, analysis_results, message, FALSE)
    /\ pc' = "narrated"
    /\ UNCHANGED <<data_vars, message, query_info, chat_vars, route, calls,
                   charts_data, chart_raised>>

NextNarrate == narrate

SpecNarrate == InitNarrate /\ [][NextNarrate]_vars

\* words of the modelled messages
Vocabulary ==
    {"trend", "Trend", "TOP", "trending", "sales", "vs", "3", "2.5", "months",
     "top_sales"}

\* messages longer than MaxWords that are handed over as well
LongMessages ==
    {<<"show", "me", "the", "trend", "in", "sales", "over", "the", "last", "3",
       "months">>}

\* ChatMessage.context: an optional JSON object of the caller's choosing.  The
\* facets have the shape in which the analyze route returns them.
Contexts ==
    LET TrendsOf(direction, strength) ==
            Dict([qty |-> Dict([direction |-> Txt(direction), slope |-> strength,
                                strength |-> strength])])
        StrongOf(r) ==
            List(<<Dict([variable1 |-> Txt("qty"), variable2 |-> Txt("units"),
                         correlation |-> r, strength |-> Txt("strong")])>>)
        AnomaliesOf(percentage) ==
            Dict([units |-> Dict([count |-> IntV(1), percentage |-> percentage])])
    IN  { None,
          EmptyDict,
          Dict([data_summary |->
                    Dict([total_rows |-> IntV(3), total_columns |-> IntV(2)]),
                correlations |->
                    Msg("Insufficient numeric columns for correlation analysis")]),
          Dict([trends |-> EmptyDict,
                correlations |-> Dict([strong_correlations |-> List(<<>>)]),
                anomalies |-> EmptyDict]),
          Dict([trends |-> TrendsOf("increasing", Float(1, 2)),
                correlations |-> Dict([strong_correlations |-> StrongOf(Float(9, 10))]),
                anomalies |-> AnomaliesOf(Float(100, 4))]),
          \* a NaN slope, which the route's replace_nan_recursive turns into None
          Dict([trends |-> TrendsOf("decreasing", None),
                correlations |-> Dict([strong_correlations |-> StrongOf(Float(9, 10))]),
                anomalies |-> AnomaliesOf(Float(100, 4))]) }

\* one message per intent of query_patterns
IntentMessages ==
    {<<"trend">>, <<"correlation">>, <<"anomaly">>, <<"summary">>, <<"compare">>,
     <<"forecast">>, <<"distribution">>, <<"top">>, <<"bottom">>}

InitClassify ==
    /\ pc = "parse_query"
    /\ df = NoTable
    /\ cleaned_df = NoTable
    /\ cleaning_report = NoReport
    /\ rule_input = NoTable /\ alias = FALSE
    /\ second_report = Idle
    /\ analysis_results = EmptyMap
    /\ facet_raised = {}
    /\ http_results = EmptyMap
    /\ message \in SeqsUpTo(Vocabulary, MaxWords) \cup LongMessages \cup IntentMessages
    /\ query_info = EmptyMap
    /\ context \in Contexts
    /\ response = Idle /\ sessions = EmptyMap
    /\ session_id = "" /\ history = <<>> /\ processed = EmptyMap
    /\ NoPipeline

NextClassify == parse_query \/ generate_response

SpecClassify == InitClassify /\ [][NextClassify]_vars

-----------------------------------------------------------------------------
(* ConversationalAgent: sessions *)

MaxLog == 2

\* session ids callers choose, and the results of uuid.uuid4()
CallerIds == {"A", "B"}
Uuids == {"uuid-1"}
NoId == ""

\* self.sessions[session_id]["messages"], [] for an unknown id
MessagesOf(ss, id) == IF id \in DOMAIN ss THEN ss[id]["messages"] ELSE <<>>

StoreMessageFirst(ss, id, entry) ==
    [ss EXCEPT ![id]["messages"] = <<entry>> \o @]

\* lines 62-68: the entry is appended to the session's messages.  The
\* timestamp of an entry is not modelled.
StoreMessage(ss, id, entry) ==
    [ss EXCEPT ![id]["messages"] = Append(@, entry)]

\* the log the specification speaks of: the entries processed with an id
\* since it was last cleared
Logged(id) == IF id \in DOMAIN processed THEN processed[id] ELSE <<>>

\* process_message(message, session_id, context).  parse_query and
\* _generate_response catch their own exceptions, so the except of lines
\* 81-89 is not reached.  message, context, query_info, response and history
\* are the locals and the result of the request being served.
process_message ==
    \E msg \in {<<"trend">>, <<"forecast">>}, sid \in CallerIds \cup Uuids \cup {NoId},
       ctx \in {c \in Contexts : "count" \in DOMAIN _generate_trend_response(c)
                                    /\ _generate_trend_response(c).count > 0} :
    \E id \in IF sid = NoId THEN Uuids \ DOMAIN processed ELSE {sid} :
        LET started == IF id \in DOMAIN sessions THEN sessions
                       ELSE MapPut(sessions, id, [messages |-> <<>>, context |-> EmptyMap])
            parsed_query == ParsedQuery(msg)
            reply == _generate_response(parsed_query, ctx)
            entry == [message |-> msg, response |-> reply,
                      query_type |-> parsed_query["type"]]
        IN  /\ sid \in Uuids => sid \in DOMAIN processed
            /\ Len(MessagesOf(sessions, id)) < MaxLog
            /\ sessions' = StoreMessage(started, id, entry)
            /\ processed' = MapPut(processed, id, Append(Logged(id), entry))
            /\ message' = msg /\ context' = ctx /\ session_id' = id
            /\ query_info' = parsed_query /\ response' = reply
            /\ pc' = "process_message" /\ history' = <<>>
            /\ UNCHANGED <<data_vars, pipeline_vars>>

GetSessionHistoryCreating ==
    \E id \in CallerIds \cup Uuids :
        /\ sessions' = IF id \in DOMAIN sessions THEN sessions
                       ELSE MapPut(sessions, id, [messages |-> <<>>, context |-> EmptyMap])
        /\ history' = MessagesOf(sessions, id)
        /\ session_id' = id /\ pc' = "get_session_history"
        /\ message' = <<>> /\ context' = Idle /\ query_info' = Idle /\ response' = Idle
        /\ UNCHANGED <<processed, data_vars, pipeline_vars>>

get_session_history ==
    \E id \in CallerIds \cup Uuids :
        /\ history' = MessagesOf(sessions, id)
        /\ session_id' = id /\ pc' = "get_session_history"
        /\ message' = <<>> /\ context' = Idle /\ query_info' = Idle /\ response' = Idle
        /\ UNCHANGED <<sessions, processed, data_vars, pipeline_vars>>

clear_session ==
    \E id \in CallerIds \cup Uuids :
        /\ sessions' = IF id \in DOMAIN sessions
                       THEN [x \in DOMAIN sessions \ {id} |-> sessions[x]]
                       ELSE sessions
        /\ processed' = IF id \in DOMAIN processed
                        THEN [processed EXCEPT ![id] = <<>>]
                        ELSE processed
        /\ session_id' = id /\ pc' = "clear_session"
        /\ message' = <<>> /\ context' = Idle /\ query_info' = Idle /\ response' = Idle
        /\ history' = <<>>
        /\ UNCHANGED <<data_vars, pipeline_vars>>

InitSession ==
    /\ pc = "serving"
    /\ df = NoTable /\ cleaned_df = NoTable /\ cleaning_report = NoReport
    /\ rule_input = NoTable /\ alias = FALSE /\ second_report = Idle
    /\ analysis_results = EmptyMap /\ facet_raised = {} /\ http_results = EmptyMap
    /\ message = <<>> /\ query_info = Idle
    /\ NoChat /\ NoPipeline

\* the requests arrive in any order; the agent serves one at a time
NextSession == process_message \/ get_session_history \/ clear_session

SpecSession == InitSession /\ [][NextSession]_vars

-----------------------------------------------------------------------------
(* two process_message calls on the one agent, running in two threads *)

Threads == {1, 2}

\* In this specification pc, message and session_id hold one value per
\* thread: the position of the call in lines 48-68 and its two arguments.
\* No session exists when the calls arrive.
InitThreads ==
    /\ pc = [t \in Threads |-> "check"]
    /\ message \in [Threads -> {<<"trend">>, <<"forecast">>, <<"sales">>}]
    /\ session_id \in [Threads -> CallerIds]
    /\ context \in {c \in Contexts : "count" \in DOMAIN _generate_trend_response(c)
                                       /\ _generate_trend_response(c).count > 0}
    /\ sessions = EmptyMap /\ processed = EmptyMap
    /\ response = Idle /\ history = <<>>
    /\ df = NoTable /\ cleaned_df = NoTable /\ cleaning_report = NoReport
    /\ rule_input = NoTable /\ alias = FALSE /\ second_report = Idle
    /\ analysis_results = EmptyMap /\ facet_raised = {} /\ http_results = EmptyMap
    /\ query_info = Idle
    /\ NoPipeline

\* line 49: if session_id not in self.sessions
pm_check(t) ==
    /\ pc[t] = "check"
    /\ pc' = [pc EXCEPT ![t] = IF session_id[t] \in DOMAIN sessions
                               THEN "store" ELSE "create"]
    /\ UNCHANGED <<data_vars, pipeline_vars, chat_vars, message, query_info>>

\* lines 50-54: self.sessions[session_id] = {"messages": [], ...}
pm_create(t) ==
    /\ pc[t] = "create"
    /\ sessions' = MapPut(sessions, session_id[t],
                          [messages |-> <<>>, context |-> EmptyMap])
    /\ pc' = [pc EXCEPT ![t] = "store"]
    /\ UNCHANGED <<data_vars, pipeline_vars, context, response, session_id,
                   history, processed, message, query_info>>

\* lines 57-68: parse_query and _generate_response work on locals, then the
\* entry is appended to the messages of the session found under the id
pm_store(t) ==
    LET parsed_query == ParsedQuery(message[t])
        entry == [message |-> message[t],
                  response |-> _generate_response(parsed_query, context),
                  query_type |-> parsed_query["type"]]
    IN  /\ pc[t] = "store"
        /\ sessions' = StoreMessage(sessions, session_id[t], entry)
        /\ processed' = MapPut(processed, session_id[t],
                               Append(Logged(session_id[t]), entry))
        /\ pc' = [pc EXCEPT ![t] = "done"]
        /\ UNCHANGED <<data_vars, pipeline_vars, context, response, session_id,
                       history, message, query_info>>

NextThreads == \E t \in Threads : pm_check(t) \/ pm_create(t) \/ pm_store(t)

SpecThreads == InitThreads /\ [][NextThreads]_vars

\* the intents whose keyword set holds a lowercased word of the message
Matched ==
    {ty \in {QueryTypes[i] : i \in 1..Len(QueryTypes)} :
        \E i \in 1..Len(message) : Lower(message[i]) \in query_patterns(ty)}

\* C10: no matching pattern gives 'general', exactly one gives that intent,
\* and two or more give 'complex' with sub_types listing each matched intent
\* once and no other; the patterns see the lowercased text
C10_IntentFromMatches ==
    pc = "parsed" =>
        /\ Matched = {} =>
              query_info["type"] = "general" /\ "sub_types" \notin DOMAIN query_info
        /\ Cardinality(Matched) = 1 =>
              query_info["type"] \in Matched /\ "sub_types" \notin DOMAIN query_info
        /\ Cardinality(Matched) >= 2 =>
              /\ query_info["type"] = "complex"
              /\ "sub_types" \in DOMAIN query_info
              /\ Len(query_info["sub_types"]) = Cardinality(Matched)
              /\ {query_info["sub_types"][i] : i \in 1..Len(query_info["sub_types"])} = Matched

\* a message typed partly in capitals that matches two patterns
C10_Witness ==
    /\ pc = "parsed"
    /\ \E i \in 1..Len(message) : message[i] = "TOP"
    /\ query_info["type"] = "complex"
    /\ query_info["sub_types"] = <<"trend", "top">>

-----------------------------------------------------------------------------
(* the confidence of a classified query *)

\* ten times the sum the adjustments make over the reals
ConfidenceTenths ==
    5 + (IF query_info["type"] # "general" THEN 2 ELSE 0)
      + (IF DOMAIN query_info["parameters"] # {} THEN 1 ELSE 0)
      + (IF Len(query_info["visualizations"]) > 0 THEN 1 ELSE 0)
      - (IF Cardinality(Matched) > 1 THEN 1 ELSE 0)

\* the double nearest to n / 10, printed
Decimal(n) ==
    CASE n = 4 -> "0.4" [] n = 5 -> "0.5" [] n = 6 -> "0.6" [] n = 7 -> "0.7"
      [] n = 8 -> "0.8" [] n = 9 -> "0.9"

\* C11 (as claimed): the confidence equals the sum of the adjustments
C11_ConfidenceIsTheSum ==
    pc = "parsed" => query_info["confidence"] = Decimal(ConfidenceTenths)

\* C11 (amended): the confidence is that sum as accumulated in doubles: the
\* sum itself up to 0.7, and the double just below 0.8 or 0.9 for those sums
C11_ConfidenceIsTheDoubleSum ==
    pc = "parsed" =>
        query_info["confidence"] =
            CASE ConfidenceTenths <= 7 -> Decimal(ConfidenceTenths)
              [] ConfidenceTenths = 8 -> "0.7999999999999999"
              [] ConfidenceTenths = 9 -> "0.8999999999999999"

\* one intent, a parameter and a suggestion list: 0.5 + 0.2 + 0.1 + 0.1
C11_Witness ==
    /\ pc = "parsed"
    /\ ConfidenceTenths = 9
    /\ query_info["confidence"] = "0.8999999999999999"

-----------------------------------------------------------------------------
(* a trend query that names a number of months *)

\* the positions of a number directly followed by 'month' or 'months'
MonthsSaid ==
    {i \in 1..(Len(message) - 1) :
        message[i] \in NumberWords /\ Lower(message[i + 1]) \in {"month", "months"}}

\* C12: a query that matches the trend pattern only and says '<n> months' is
\* classified 'trend' with parameters months = n (n the digits before
\* 'months', the first such place counting); the example sentence of the
\* specification gives 'trend' and months = 3
C12_TrendWithMonths ==
    pc = "parsed" =>
        /\ (Matched = {"trend"} /\ MonthsSaid # {}) =>
              /\ query_info["type"] = "trend"
              /\ "months" \in DOMAIN query_info["parameters"]
              /\ \E i \in MonthsSaid :
                    /\ \A o \in MonthsSaid : i <= o
                    /\ query_info["parameters"]["months"] = PeriodCount(message[i])
        /\ message \in LongMessages =>
              /\ Matched = {"trend"}
              /\ query_info["type"] = "trend"
              /\ query_info["parameters"]["months"] = 3

\* the example sentence has been classified
C12_Witness ==
    /\ pc = "parsed"
    /\ message \in LongMessages
    /\ query_info["type"] = "trend"
    /\ query_info["parameters"]["months"] = 3
    /\ Len(query_info["parameters"]["columns"]) = 5

-----------------------------------------------------------------------------
(* C13 *)

NineIntents == {QueryTypes[i] : i \in 1..Len(QueryTypes)}

\* C13: a message of one of the nine intents is never answered with the
\* general response; a 'general' or 'complex' message always is
C13_OwnResponsePerIntent ==
    pc = "answered" =>
        (response = _generate_general_response
            <=> query_info["type"] \notin NineIntents)

-----------------------------------------------------------------------------
(* C14 *)

\* the intent's facet in the caller's context, None when the context is
\* absent or lacks the key
FacetOfContext(ty) ==
    LET key == CASE ty = "trend" -> "trends"
                 [] ty = "correlation" -> "correlations"
                 [] ty = "anomaly" -> "anomalies"
    IN  IF context.t # "dict" \/ key \notin DOMAIN context.v THEN None
        ELSE IF ty # "correlation" THEN context.v[key]
        ELSE IF context.v[key].t # "dict" THEN None
        ELSE IF "strong_correlations" \notin DOMAIN context.v[key].v THEN None
        ELSE context.v[key].v["strong_correlations"]

NonEmptyFacet(ty) ==
    FacetOfContext(ty).t \in {"dict", "list"} /\ Truthy(FacetOfContext(ty))

UploadRequest(ty) ==
    CASE ty = "trend" -> "I can help you identify trends in your data."
      [] ty = "correlation" ->
            "I can analyze correlations between variables in your data."
      [] ty = "anomaly" -> "I can detect anomalies and outliers in your data."

\* C14: a trend, correlation or anomaly message is answered from the context
\* (the facet's count and details) exactly when the context holds a non-empty
\* map for the facet, and with the request to upload data otherwise
C14_FilledIffNonEmptyFacet ==
    (pc = "answered" /\ query_info["type"] \in {"trend", "correlation", "anomaly"}) =>
        IF NonEmptyFacet(query_info["type"])
        THEN /\ response.text = response_templates(query_info["type"])
             /\ response.count > 0
        ELSE /\ response.text = UploadRequest(query_info["type"])
             /\ response.count = 0

-----------------------------------------------------------------------------
(* C15 *)

\* C15: the history returned for an id is the list, in order, of the entries
\* processed with that id since it was last cleared, and a cleared id has no
\* session until its next message
C15_HistoryIsTheLogSinceClear ==
    /\ \A id \in CallerIds \cup Uuids : MessagesOf(sessions, id) = Logged(id)
    /\ pc = "get_session_history" => history = Logged(session_id)
    /\ pc = "clear_session" => session_id \notin DOMAIN sessions

\* a history of two different entries is returned while a session that was
\* cleared is still gone
C15_Witness ==
    /\ pc = "get_session_history"
    /\ Len(history) = 2
    /\ history[1] # history[2]
    /\ \E id \in CallerIds : id # session_id /\ id \in DOMAIN processed
                             /\ id \notin DOMAIN sessions

-----------------------------------------------------------------------------
(* C16 *)

\* C16: a request on one id leaves the log and the existence of every other
\* session as they were, and get_session_history changes no session
C16_SessionsIsolated ==
    [][ /\ \A id \in (CallerIds \cup Uuids) \ {session_id'} :
              /\ (id \in DOMAIN sessions') = (id \in DOMAIN sessions)
              /\ MessagesOf(sessions', id) = MessagesOf(sessions, id)
        /\ pc' = "get_session_history" => sessions' = sessions ]_vars

\* the history of an unknown id is asked for while another session exists
C16_Witness ==
    /\ pc = "get_session_history"
    /\ session_id \notin DOMAIN sessions
    /\ DOMAIN sessions # {}

-----------------------------------------------------------------------------
(* C17 *)

\* C17: in both routes the calls are clean, analyze, insights, charts in this
\* order; analyze gets the table clean returned; insights and charts get that
\* table and the result analyze returned; after a call that raised there is
\* no further call
C17_StagesInOrder ==
    /\ Len(calls) <= 4
    /\ \A i \in 1..Len(calls) :
          /\ calls[i].stage =
                CASE i = 1 -> "clean_data"
                  [] i = 2 -> "analyze_data"
                  [] i = 3 -> IF route = "analyze_data" THEN "generate_insights"
                              ELSE "generate_natural_language_insights"
                  [] i = 4 -> "create_charts_data"
          /\ i < Len(calls) => ~calls[i].raised
          /\ i = 1 => calls[i].df = df
          /\ i >= 2 => calls[i].df = cleaned_df /\ cleaned_df # NoTable
          /\ i >= 3 => /\ calls[i].analysis_results = analysis_results
                       /\ analysis_results # EmptyMap
    /\ pc = "http_500" => (calls = <<>> \/ calls[Len(calls)].raised)

\* the charts were derived from a cleaned table that differs from the upload
C17_Witness ==
    /\ pc = "route_convert"
    /\ Len(calls) = 4
    /\ cleaned_df # df
    /\ route = "generate_insights"

-----------------------------------------------------------------------------
(* C18 *)

IsErrorMapping(payload) == payload.t = "dict" /\ "error" \in DOMAIN payload.v

\* C18: a chart entry whose derivation raised holds an {error} mapping, and
\* every other entry is what it is when nothing raises
C18_ErrorPayloadForFailedEntry ==
    pc = "route_convert" =>
        \A key \in ChartKeys :
            IF key \in chart_raised THEN IsErrorMapping(charts_data[key])
            ELSE charts_data[key] =
                    create_charts_data(cleaned_df, analysis_results, {})[key]

-----------------------------------------------------------------------------
(* C19 *)

Correlations == analysis_results["correlations"].v

\* |r1| >= |r2| for two correlation values n / sqrt(d)
AbsAtLeast(r1, r2) == r1.v.n * r1.v.n * r2.v.d >= r2.v.n * r2.v.n * r1.v.d

\* C19: with the matrix of the result, strong_correlations has one entry per
\* unordered pair of distinct columns with |r| > 0.7 and nothing else, the
\* entry is tagged 'strong' iff |r| > 0.8 and 'moderate' otherwise, and
\* highest_correlation is an entry of maximal |r|, None for an empty list
C19_StrongCorrelationsExact ==
    (pc = FacetKeys[4] /\ "strong_correlations" \in DOMAIN Correlations) =>
        LET matrix == Correlations["correlation_matrix"].v
            strong == Correlations["strong_correlations"].v
            highest == Correlations["highest_correlation"]
            names == DOMAIN matrix
            PairOf(i) == {strong[i].v["variable1"].v, strong[i].v["variable2"].v}
        IN  /\ \A a \in names : \A b \in names \ {a} :
                  Cardinality({i \in 1..Len(strong) : PairOf(i) = {a, b}})
                      = IF AbsAbove(matrix[a].v[b], 7) THEN 1 ELSE 0
            /\ \A i \in 1..Len(strong) :
                  /\ PairOf(i) \subseteq names /\ Cardinality(PairOf(i)) = 2
                  /\ strong[i].v["correlation"]
                        = matrix[strong[i].v["variable1"].v].v[strong[i].v["variable2"].v]
                  /\ strong[i].v["strength"].v
                        = IF AbsAbove(strong[i].v["correlation"], 8)
                          THEN "strong" ELSE "moderate"
            /\ IF strong = <<>> THEN highest.t = "none"
               ELSE /\ highest.t = "dict"
                    /\ \E i \in 1..Len(strong) : strong[i] = highest
                    /\ \A i \in 1..Len(strong) :
                          AbsAtLeast(highest.v["correlation"], strong[i].v["correlation"])

\* a moderate and a strong pair are listed, a third pair is not
C19_Witness ==
    /\ pc = FacetKeys[4]
    /\ "strong_correlations" \in DOMAIN Correlations
    /\ LET strong == Correlations["strong_correlations"].v
       IN  /\ Len(strong) = 2
           /\ strong[1].v["strength"].v = "moderate"
           /\ strong[2].v["strength"].v = "strong"
           /\ Correlations["highest_correlation"] = strong[2]

-----------------------------------------------------------------------------
(* C20 *)

\* the non-null values of column j of the table handed to the type rule, and
\* those of them that parse as numbers
NonNull(j) == DropNa(Column(rule_input, j))
Parsing(j) == SelectSeq(NonNull(j), LAMBDA c : ~IsNull(ToNumeric(c)))

\* C20 (as claimed): the type rule makes a text column numeric exactly when
\* at least 80% of its non-null values parse as numbers
C20_NumericIffEightyPercent ==
    (pc = cleaning_rules[5] /\ ~StepRaised(4)) =>
        \A j \in ColIdx(rule_input) :
            (rule_input.dtypes[j] = "object" /\ Len(NonNull(j)) > 0) =>
                (IsNumeric(cleaned_df.dtypes[j])
                    <=> 10 * Len(Parsing(j)) >= 8 * Len(NonNull(j)))

-----------------------------------------------------------------------------
(* C21 *)

Trends == analysis_results["trends"].v

\* C21 (as claimed): for every column in trends, strength is |slope|, the
\* direction is 'increasing' exactly for a positive slope and 'decreasing'
\* exactly for a negative one, and the date column is not in trends.  (A NaN
\* slope is left aside.)
C21_DirectionAgreesWithSlope ==
    (pc = FacetKeys[3] /\ "trends" \in DOMAIN analysis_results) =>
        /\ \A col \in DOMAIN Trends :
              LET slope == Trends[col].v["slope"]
                  strength == Trends[col].v["strength"]
                  direction == Trends[col].v["direction"].v
              IN  ~IsNaN(slope) =>
                    /\ strength.v.d = slope.v.d /\ strength.v.n = Abs(slope.v.n)
                    /\ direction = "increasing" <=> slope.v.n > 0
                    /\ direction = "decreasing" <=> slope.v.n < 0
        /\ DateCol(df) # 0 => df.labels[DateCol(df)] \notin DOMAIN Trends

-----------------------------------------------------------------------------
(* C22 *)

Clusters == analysis_results["patterns"].v["clusters"].v

\* C22: with n complete rows of at least two numeric columns the result is a
\* placeholder message when n < 10 or min(5, n div 10) < 2 and names
\* n_clusters = min(5, n div 10) otherwise; a named n_clusters is between 2
\* and 5 and data_points_used + data_points_excluded is the row count
C22_ClusterCount ==
    (pc = FacetKeys[6] /\ "patterns" \in DOMAIN analysis_results) =>
        LET n == Cardinality({i \in 1..NRows(df) :
                    \A j \in ColIdx(df) : IsNumeric(df.dtypes[j]) => ~IsNull(df.rows[i][j])})
            count == IF 5 < n \div 10 THEN 5 ELSE n \div 10
            numeric == {j \in ColIdx(df) : IsNumeric(df.dtypes[j])}
        IN  /\ (Cardinality(numeric) >= 2 /\ "clusters" \notin facet_raised) =>
                  IF n < 10 \/ count < 2 THEN DOMAIN Clusters = {"message"}
                  ELSE /\ "n_clusters" \in DOMAIN Clusters
                       /\ Clusters["n_clusters"].v = count
            /\ "n_clusters" \in DOMAIN Clusters =>
                  /\ Clusters["n_clusters"].v \in 2..5
                  /\ Clusters["data_points_used"].v + Clusters["data_points_excluded"].v
                        = NRows(df)

\* sixty complete rows and more are put into five clusters, an incomplete
\* row is excluded
C22_Witness ==
    /\ pc = FacetKeys[6]
    /\ "patterns" \in DOMAIN analysis_results
    /\ "n_clusters" \in DOMAIN Clusters
    /\ Clusters["n_clusters"].v = 5
    /\ Clusters["data_points_used"].v >= 60
    /\ Clusters["data_points_excluded"].v > 0

-----------------------------------------------------------------------------
(* C23 *)

Detailed == insights.v.detailed_insights

StatisticsSentences(lbl) ==
    SelectSeq(Detailed, LAMBDA s : /\ s.v.subject = <<lbl>>
                                   /\ s.v.template \in {HighVariance, LowVariance, Skewed, Normal})

\* the recorded skewness lies strictly between 0.5 and 1 in absolute value
SkewInGap(lbl) ==
    LET skew == analysis_results["basic_stats"].v[lbl].v["skewness"]
    IN  /\ ~IsNaN(skew) /\ skew.v.form = "skew"
        /\ 4 * Abs(skew.v.n) > skew.v.d /\ Abs(skew.v.n) < skew.v.d

\* the column's values in units, and its coefficient of variation against
\* p / q: cv^2 = n * Dev2 / ((n - 1) * sum^2)
UnitsOf(lbl) ==
    LET q == NumsOf(Column(df, IdxOf(df, lbl))) IN [i \in 1..Len(q) |-> q[i] \div SCALE]

CvAbove(lbl, p, q) ==
    LET u == UnitsOf(lbl)
    IN  Len(u) >= 2 /\ Dev2(u) > 0
        /\ q * q * Len(u) * Dev2(u) > p * p * (Len(u) - 1) * SeqSum(u) * SeqSum(u)

CvBelow(lbl, p, q) ==
    LET u == UnitsOf(lbl)
    IN  Len(u) >= 2 /\ Dev2(u) > 0
        /\ q * q * Len(u) * Dev2(u) < p * p * (Len(u) - 1) * SeqSum(u) * SeqSum(u)

StatisticsColumns ==
    IF "message" \in DOMAIN analysis_results["basic_stats"].v THEN {}
    ELSE DOMAIN analysis_results["basic_stats"].v

\* C23 as stated: at most one statistics sentence per column, and none at
\* all for a column whose |skewness| lies strictly between 0.5 and 1
C23_NoSentenceInSkewGap ==
    pc = "narrated" =>
        \A lbl \in StatisticsColumns :
            /\ Len(StatisticsSentences(lbl)) <= 1
            /\ SkewInGap(lbl) => StatisticsSentences(lbl) = <<>>

\* C23 amended: at most one statistics sentence per column; it is the
\* variability sentence when std > 0 and std / |mean| is above 0.5 or below
\* 0.1, whatever the skewness; otherwise it is a skewness sentence, which
\* there is none of when |skewness| lies strictly between 0.5 and 1
C23_VariabilityBeforeSkew ==
    pc = "narrated" =>
        \A lbl \in StatisticsColumns :
            LET said == StatisticsSentences(lbl)
            IN  /\ Len(said) <= 1
                /\ CvAbove(lbl, 1, 2) => (said # <<>> /\ said[1].v.template = HighVariance)
                /\ CvBelow(lbl, 1, 10) => (said # <<>> /\ said[1].v.template = LowVariance)
                /\ (~CvAbove(lbl, 1, 2) /\ ~CvBelow(lbl, 1, 10)) =>
                      /\ said # <<>> => said[1].v.template \in {Skewed, Normal}
                      /\ SkewInGap(lbl) => said = <<>>

\* a column with skewness in the gap is given the high-variability sentence
\* and another one in the gap is given none
C23_Witness ==
    /\ pc = "narrated"
    /\ \E lbl \in StatisticsColumns :
          /\ SkewInGap(lbl)
          /\ StatisticsSentences(lbl) # <<>>
          /\ StatisticsSentences(lbl)[1].v.template = HighVariance

-----------------------------------------------------------------------------
(* C24 *)

Recommended == {insights.v.recommendations[i] : i \in 1..Len(insights.v.recommendations)}

\* more than a tenth of the table's cells are missing
MissingOverTenPercent ==
    10 * Cardinality({<<i, j>> \in (1..NRows(df)) \X (1..NCols(df)) : IsNull(df.rows[i][j])})
        > NRows(df) * NCols(df)

AnyAnomalies == DOMAIN analysis_results["anomalies"].v # {}

AnyStrongCorrelations ==
    /\ "strong_correlations" \in DOMAIN analysis_results["correlations"].v
    /\ analysis_results["correlations"].v["strong_correlations"].v # <<>>

AnyTrends == DOMAIN analysis_results["trends"].v # {}

\* C24: the recommendations are never empty; each of the four advices is
\* given exactly when its own check fired, and the two generic
\* recommendations are given exactly when none of the four fired
C24_RecommendationsNeverEmpty ==
    pc = "narrated" =>
        /\ insights.v.recommendations # <<>>
        /\ Imputation \in Recommended <=> MissingOverTenPercent
        /\ Investigate \in Recommended <=> AnyAnomalies
        /\ Explore \in Recommended <=> AnyStrongCorrelations
        /\ Monitor \in Recommended <=> AnyTrends
        /\ (insights.v.recommendations = Generic) <=>
              ~(MissingOverTenPercent \/ AnyAnomalies \/ AnyStrongCorrelations \/ AnyTrends)
        /\ \A i \in 1..Len(Generic) : Generic[i] \in Recommended =>
              ~(MissingOverTenPercent \/ AnyAnomalies \/ AnyStrongCorrelations \/ AnyTrends)

\* all four checks fired and all four advices are given
C24_Witness ==
    /\ pc = "narrated"
    /\ MissingOverTenPercent /\ AnyAnomalies /\ AnyStrongCorrelations /\ AnyTrends
    /\ insights.v.recommendations = <<Imputation, Investigate, Explore, Monitor>>

-----------------------------------------------------------------------------
(* C25 *)

QueryInsight == insights.v.query_specific_insights

Asks(words) == \E w \in words : Occurs(w, message)

AboutTrends ==
    "Based on your question about trends, I found {trend_count} significant trend(s) in your data."
AboutCorrelations ==
    "Regarding correlations, I identified {len(strong_correlations)} strong correlation(s) in your data."
AboutAnomalies ==
    "Concerning anomalies, I detected {total_anomalies} potential outliers across your dataset."

\* the one sentence of the facet, or none when the facet is empty
OneSentence(template, facet_present) ==
    IF facet_present
    THEN QueryInsight.t = "sentence" /\ QueryInsight.v.template = template
    ELSE QueryInsight.t = "none"

\* C25: without a query there is no query-specific insight; otherwise only
\* the first keyword set that the query matches, in the order trend,
\* correlation, anomaly, is consulted: the insight is the one sentence about
\* that facet, and none when that facet is empty or no set matches
C25_FirstMatchingKeywordSetOnly ==
    pc = "narrated" =>
        IF message = <<>> THEN QueryInsight.t = "none"
        ELSE IF Asks(TrendWords) THEN OneSentence(AboutTrends, AnyTrends)
        ELSE IF Asks(CorrelationWords)
        THEN OneSentence(AboutCorrelations, AnyStrongCorrelations)
        ELSE IF Asks(AnomalyWords) THEN OneSentence(AboutAnomalies, AnyAnomalies)
        ELSE QueryInsight.t = "none"

\* the query asks about trends and outliers, there are outliers and no
\* trends: no sentence
C25_Witness ==
    /\ pc = "narrated"
    /\ Asks(TrendWords) /\ Asks(AnomalyWords)
    /\ ~AnyTrends /\ AnyAnomalies
    /\ QueryInsight.t = "none"

-----------------------------------------------------------------------------
(* C30 *)

CorrelationSentences == SelectSeq(Detailed, LAMBDA s : Len(s.v.subject) = 2)

\* the strength word of a correlation sentence
StrengthWord(template) ==
    CASE template \in {"There's a very strong positive correlation ({corr:.2f}) between {var1} and {var2}, suggesting they move together.",
                       "There's a very strong negative correlation ({corr:.2f}) between {var1} and {var2}, suggesting an inverse relationship."}
            -> "very strong"
      [] template \in {"There's a strong positive correlation ({corr:.2f}) between {var1} and {var2}.",
                       "There's a strong negative correlation ({corr:.2f}) between {var1} and {var2}."}
            -> "strong"
      [] OTHER -> "moderate"

\* C30: the sentence of each pair of strong_correlations uses the strength
\* word of the pair's tag: a pair tagged 'moderate' is not described as
\* strong and a pair tagged 'strong' is not described as moderate
C30_SentenceUsesTheTag ==
    (pc = "narrated" /\ AnyStrongCorrelations) =>
        LET pairs == analysis_results["correlations"].v["strong_correlations"].v
        IN  /\ Len(CorrelationSentences) = Len(pairs)
            /\ \A i \in 1..Len(pairs) :
                  LET word == StrengthWord(CorrelationSentences[i].v.template)
                      tag == pairs[i].v["strength"].v
                  IN  /\ tag = "moderate" => word = "moderate"
                      /\ tag = "strong" => word \in {"strong", "very strong"}

-----------------------------------------------------------------------------
(* C26 *)

\* C26: when two calls for the same session id, which did not exist when
\* they arrived, have both returned, the entries of both are in the
\* session's messages
C26_BothEntriesKept ==
    ((\A t \in Threads : pc[t] = "done") /\ session_id[1] = session_id[2]) =>
        /\ Len(MessagesOf(sessions, session_id[1])) = 2
        /\ \A t \in Threads :
              \E i \in 1..2 : MessagesOf(sessions, session_id[1])[i].message = message[t]

-----------------------------------------------------------------------------
(* C27 *)

\* C27: no step of clean_data changes the caller's table: the rules work on
\* the copy made before the first rule
C27_CallerTableUntouched == [][df' = df]_vars

\* the call returned a table that differs from the caller's
C27_Witness ==
    /\ pc = "cleaned"
    /\ cleaned_df # df
    /\ ~alias

-----------------------------------------------------------------------------
(* C28 *)

\* C28: in the finished report columns_removed is 0 and final_shape has the
\* column count of the caller's table; when the duplicates step did not
\* fail, rows_removed is its duplicates_removed
C28_OnlyDuplicatesRemoveRows ==
    pc = "cleaned" =>
        /\ cleaning_report.columns_removed = 0
        /\ cleaning_report.final_shape[2] = NCols(df)
        /\ cleaning_report.final_shape = Shape(cleaned_df)
        /\ ~StepRaised(2) =>
              /\ cleaning_report.rows_removed = Steps[2].report.duplicates_removed
              /\ cleaning_report.final_shape[1] = NRows(df) - cleaning_report.rows_removed

\* rows were removed and a column changed its type
C28_Witness ==
    /\ pc = "cleaned"
    /\ ~StepRaised(2)
    /\ cleaning_report.rows_removed > 0
    /\ \E j \in ColIdx(df) : df.dtypes[j] # cleaned_df.dtypes[j]

-----------------------------------------------------------------------------
(* C29 *)

\* C29 as stated: the visualization list of a classified query is never
\* empty and its confidence is one of 0.6, 0.7, 0.8 and 0.9
C29_ConfidenceOneOfFour ==
    pc = "parsed" =>
        /\ query_info["visualizations"] # <<>>
        /\ query_info["confidence"] \in {"0.6", "0.7", "0.8", "0.9"}

\* C29 amended: the visualization list of a classified query is never
\* empty, so its confidence is one of the doubles 0.6, 0.7,
\* 0.7999999999999999 and 0.8999999999999999, never 0.0 and never outside
\* [0, 1]
C29_ConfidenceOneOfFourDoubles ==
    pc = "parsed" =>
        /\ query_info["visualizations"] # <<>>
        /\ query_info["confidence"] \in
              {"0.6", "0.7", "0.7999999999999999", "0.8999999999999999"}
        /\ query_info["type"] \notin NineIntents \cup {"general"}
              => query_info["visualizations"] = <<"summary_table">>

\* several intents with a parameter: the default list, and a confidence that
\* the boost for the list brought to 0.8999999999999999 before the penalty
C29_Witness ==
    /\ pc = "parsed"
    /\ query_info["type"] = "complex"
    /\ query_info["parameters"] # EmptyMap
    /\ query_info["visualizations"] = <<"summary_table">>
    /\ query_info["confidence"] = "0.7999999999999999"

====
